---- MODULE Spec2Model ----
(***************************************************************************)
(* Candor: anonymous workplace-issue reporting.                            *)
(* The model covers the relational store with its row-level-security      *)
(* policies (supabase/migrations), the data-access hook useIssues          *)
(* (src/hooks/useIssues.ts), the report page's form and handleSubmit, the *)
(* two track pages' handleTrack and the Dashboard's filters and figures.   *)
(*                                                                         *)
(* A nullable column holds NULL; a nullable row (the `data` of a           *)
(* PostgREST response, React state of type Issue | null) is a sequence of  *)
(* length 0 or 1.  A transport failure is a request that never reaches the *)
(* store: the client resolves with error "network" and the store is left   *)
(* as it was.                                                              *)
(***************************************************************************)
EXTENDS Integers, Sequences, FiniteSets, TLC

VARIABLES
    db_issues,            \* public.issues, in insertion order; id = position
    db_issue_updates,     \* public.issue_updates
    db_anonymous_tokens,  \* public.anonymous_tokens
    db_profiles,          \* public.profiles
    issues,               \* useIssues: const [issues, setIssues]
    localStorage,         \* window.localStorage: set of <<key, value>>
    trackedIssue,         \* TrackIssue: [trackedIssue, setTrackedIssue] / [issue, setIssue]
    error,                \* TrackIssue: [error, setError]
    searchTerm,           \* Dashboard: [searchTerm, setSearchTerm], a sequence of characters
    statusFilter,         \* Dashboard: [statusFilter, setStatusFilter]
    severityFilter,       \* Dashboard: [severityFilter, setSeverityFilter]
    categories,           \* useIssues: const [categories, setCategories], as ids
    departments,          \* useIssues: const [departments, setDepartments], as names
    loading,              \* [loading, setLoading] of useIssues, ReportIssue and TrackIssue
    pc,                   \* where the async function of each of the three is: loadData's
                          \* position, and what a pending handleSubmit or handleTrack
                          \* was called with (<<>>: none pending)
    last,                 \* the last operation run: its inputs, the hook's result, its toasts
    auth_users,           \* auth.users, in sign-up order: id and raw_user_meta_data ->> 'role'
    tabs,                 \* the profile page open in each browser tab: its user, where
                          \* fetchProfile is, and [profile, setProfile]
    net,                  \* the requests the store has answered whose response has
                          \* not reached the caller yet
    hooks,                \* [issues, setIssues] of the useIssues instance of each of
                          \* two browser sessions
    submittedToken,       \* TrackIssue: the token of the last handleTrack call
    step,                 \* ReportIssue: [step, setStep]
    form                  \* ReportIssue: the values of the form (useForm)

\* the state of the Dashboard page
dashVars == <<searchTerm, statusFilter, severityFilter>>

\* the state that the async functions loadData, handleSubmit and handleTrack
\* own
asyncVars == <<categories, departments, loading, pc>>

\* the accounts and the state of the pages that no function of useIssues,
\* ReportIssue, TrackIssue or Dashboard reads or writes
profVars == <<auth_users, tabs>>

\* the responses in flight and what overlapping calls work on
raceVars == <<net, hooks, submittedToken>>

\* the state of the report form wizard
wizardVars == <<step, form>>

extVars == <<profVars, raceVars, wizardVars>>

vars == <<db_issues, db_issue_updates, db_anonymous_tokens, db_profiles,
          issues, localStorage, trackedIssue, error, dashVars, asyncVars, last,
          extVars>>

NULL == "NULL"

-----------------------------------------------------------------------------
(* Bounds *)

MaxNewRows == 1       \* rows inserted on top of the sample data

-----------------------------------------------------------------------------
(* Value sets *)

Severities == {"low", "medium", "high", "critical"}
Statuses == {"open", "in_progress", "resolved", "closed"}

\* the roles of the sign-up form (Auth.tsx: signUpSchema)
SignUpFormRoles == {"employee", "manager", "hr"}

\* the accounts: their ids and the role each put in raw_user_meta_data when it
\* signed up (one of the form's roles, and one the policies name)
Accounts == << <<"u1", "hr">>, <<"u2", "staff">> >>

\* issue_categories rows that exist (ids), and one id that references nothing
CategoryIds == {"cat_harassment", "cat_other"}
NoSuchCategory == "cat_missing"

\* what gen_random_bytes can make generate_anonymous_token return
GenTokens == {"tokA", "tokB"}


-----------------------------------------------------------------------------
(* Schema: sample data *)

NoError == "none"

\* INSERT INTO public.issues ... VALUES (six sample issues).  rep is the value
\* of (SELECT user_id FROM profiles LIMIT 1) when the sample data is loaded.
\* None of the six category names is a row of issue_categories, so every
\* category_id sub-select yields NULL.  created_at is in hours before loading.
SampleIssues(rep) ==
    << [id |-> 1, title |-> "Suspicious individual in Building A",
        description |-> "I noticed someone without a visitor badge",
        category_id |-> NULL, severity |-> "high", status |-> "open",
        anonymous_token |-> "sec_1", reporter_id |-> rep,
        created_at |-> -2, resolved_at |-> NULL],
       [id |-> 2, title |-> "Air conditioning not working in Conference Room B",
        description |-> "The AC unit in Conference Room B has been making loud noises",
        category_id |-> NULL, severity |-> "medium", status |-> "in_progress",
        anonymous_token |-> "mnt_2", reporter_id |-> NULL,
        created_at |-> -24, resolved_at |-> NULL],
       [id |-> 3, title |-> "Inappropriate behavior from colleague",
        description |-> "I would like to report repeated inappropriate comments",
        category_id |-> NULL, severity |-> "high", status |-> "open",
        anonymous_token |-> "hr_3", reporter_id |-> NULL,
        created_at |-> -72, resolved_at |-> NULL],
       [id |-> 4, title |-> "Computer running extremely slow",
        description |-> "My workstation has been running very slowly",
        category_id |-> NULL, severity |-> "medium", status |-> "resolved",
        anonymous_token |-> "it_4", reporter_id |-> rep,
        created_at |-> -168, resolved_at |-> NULL],
       [id |-> 5, title |-> "Broken handrail on staircase",
        description |-> "The handrail on the main staircase is loose",
        category_id |-> NULL, severity |-> "high", status |-> "open",
        anonymous_token |-> "saf_5", reporter_id |-> rep,
        created_at |-> -12, resolved_at |-> NULL],
       [id |-> 6, title |-> "Suggestion for improved cafeteria menu",
        description |-> "I would like to suggest adding more vegetarian options",
        category_id |-> NULL, severity |-> "low", status |-> "open",
        anonymous_token |-> "gen_6", reporter_id |-> rep,
        created_at |-> -120, resolved_at |-> NULL] >>

NumSampleIssues == Len(SampleIssues(NULL))

\* INSERT INTO public.issue_updates ... VALUES (two sample updates)
SampleIssueUpdates(rep) ==
    { [id |-> 1, issue_id |-> 2, update_type |-> "status_change",
       old_status |-> "open", new_status |-> "in_progress",
       created_by |-> rep, is_public |-> TRUE],
      [id |-> 2, issue_id |-> 4, update_type |-> "resolution",
       old_status |-> "in_progress", new_status |-> "resolved",
       created_by |-> rep, is_public |-> TRUE] }

\* INSERT INTO public.anonymous_tokens (token, issue_id)
\*   SELECT i.anonymous_token, i.id FROM issues i WHERE i.reporter_id IS NULL
SampleAnonymousTokens(rows) ==
    { [token |-> rows[i].anonymous_token, issue_id |-> rows[i].id] :
        i \in {j \in 1..Len(rows) : rows[j].reporter_id = NULL} }

-----------------------------------------------------------------------------
(* Row-level-security policies *)

\* the update policy open to every account that has a profile
StaffCanUpdateIssues_AnyProfile(uid) ==
    \E i \in 1..Len(db_profiles) : db_profiles[i].user_id = uid

\* CREATE POLICY "Staff can update issues" ON public.issues FOR UPDATE USING (...)
\* uid is auth.uid(): the caller's account id, NULL for an unauthenticated caller
StaffCanUpdateIssues(uid) ==
    \E i \in 1..Len(db_profiles) :
        /\ db_profiles[i].user_id = uid
        /\ db_profiles[i].role \in {"staff", "faculty"}

\* CREATE POLICY "Staff can create updates" ON public.issue_updates FOR INSERT WITH CHECK (...)
StaffCanCreateUpdates(uid) ==
    \E i \in 1..Len(db_profiles) :
        /\ db_profiles[i].user_id = uid
        /\ db_profiles[i].role \in {"staff", "faculty"}

\* the select policy of issue_updates without the is_public test
AnyoneCanViewPublicUpdates_All(u) == TRUE

\* CREATE POLICY "Anyone can view public updates" ON public.issue_updates
\*   FOR SELECT USING (is_public = true)
AnyoneCanViewPublicUpdates(u) == u.is_public = TRUE

\* CREATE POLICY "Anyone can create issues" ... WITH CHECK (true)
AnyoneCanCreateIssues(uid) == TRUE

\* CREATE POLICY "Anyone can view issues" ... USING (true)
AnyoneCanViewIssues(row) == TRUE

-----------------------------------------------------------------------------
(* The store behind the PostgREST client *)

\* a column of an inserted row: the value sent, or the column default when the
\* key is undefined (JSON.stringify drops it)
Col(d, c, default) == IF c \in DOMAIN d /\ d[c] # NULL THEN d[c] ELSE default

\* NewIssueRow with reporter_id defaulting to auth.uid()
NewIssueRow_ReporterDefaultsToUid(insertData, id, uid) ==
    [id |-> id,
     title |-> Col(insertData, "title", NULL),
     description |-> Col(insertData, "description", NULL),
     category_id |-> Col(insertData, "category_id", NULL),
     severity |-> Col(insertData, "severity", NULL),
     status |-> Col(insertData, "status", "open"),
     anonymous_token |-> Col(insertData, "anonymous_token", NULL),
     reporter_id |-> Col(insertData, "reporter_id", uid),
     created_at |-> id,
     resolved_at |-> Col(insertData, "resolved_at", NULL)]

\* CREATE TABLE public.issues: the row an INSERT makes from the columns sent.
\* uid is auth.uid() of the inserting session; no column default reads it.
NewIssueRow(insertData, id, uid) ==
    [id |-> id,
     title |-> Col(insertData, "title", NULL),
     description |-> Col(insertData, "description", NULL),
     category_id |-> Col(insertData, "category_id", NULL),
     severity |-> Col(insertData, "severity", NULL),
     status |-> Col(insertData, "status", "open"),
     anonymous_token |-> Col(insertData, "anonymous_token", NULL),
     reporter_id |-> Col(insertData, "reporter_id", NULL),
     created_at |-> id,
     resolved_at |-> Col(insertData, "resolved_at", NULL)]

\* anonymous_token without the UNIQUE constraint
TokenIsUnique_NotEnforced(rows, t, except) == TRUE

\* anonymous_token TEXT NOT NULL UNIQUE: no row other than row `except` holds t
TokenIsUnique(rows, t, except) ==
    \A i \in 1..Len(rows) : rows[i].id # except => rows[i].anonymous_token # t

\* IssueConstraintError without the CHECK on status
IssueConstraintError_NoStatusCheck(rows, row) ==
    IF row.title = NULL \/ row.description = NULL \/ row.severity = NULL
          \/ row.status = NULL \/ row.anonymous_token = NULL
    THEN "23502"
    ELSE IF row.severity \notin Severities
    THEN "23514"
    ELSE IF row.category_id # NULL /\ row.category_id \notin CategoryIds
    THEN "23503"
    ELSE IF ~TokenIsUnique(rows, row.anonymous_token, row.id)
    THEN "23505"
    ELSE NoError

\* the constraints of public.issues, as the SQLSTATE of the first one `row`
\* violates against the other rows of the table
IssueConstraintError(rows, row) ==
    IF row.title = NULL \/ row.description = NULL \/ row.severity = NULL
          \/ row.status = NULL \/ row.anonymous_token = NULL
    THEN "23502"
    ELSE IF row.severity \notin Severities \/ row.status \notin Statuses
    THEN "23514"
    ELSE IF row.category_id # NULL /\ row.category_id \notin CategoryIds
    THEN "23503"
    ELSE IF ~TokenIsUnique(rows, row.anonymous_token, row.id)
    THEN "23505"
    ELSE NoError

\* supabase.from('issues').insert([insertData]).select(...): the response and
\* the table afterwards
InsertIssue(rows, insertData, uid) ==
    LET row == NewIssueRow(insertData, Len(rows) + 1, uid)
        err == IF ~AnyoneCanCreateIssues(uid) THEN "42501"
               ELSE IssueConstraintError(rows, row)
    IN  IF err # NoError
        THEN [data |-> <<>>, error |-> err, table |-> rows]
        ELSE [data |-> <<row>>, error |-> NoError, table |-> Append(rows, row)]

\* UPDATE ... SET: the patched columns replaced, the rest kept
ApplyPatch(row, updates) ==
    [c \in DOMAIN row |-> IF c \in DOMAIN updates THEN updates[c] ELSE row[c]]

\* UpdateIssueRows that only sees rows whose status is still open, as an
\* update guarded by the status the caller read would
UpdateIssueRows_IfStillOpen(rows, issueId, updates, uid) ==
    LET hit == {i \in 1..Len(rows) : rows[i].id = issueId /\ StaffCanUpdateIssues(uid)
                                        /\ rows[i].status = "open"}
        new == [i \in 1..Len(rows) |->
                    IF i \in hit THEN ApplyPatch(rows[i], updates) ELSE rows[i]]
        bad == {i \in hit : IssueConstraintError(rows, new[i]) # NoError}
    IN  IF bad # {}
        THEN [data |-> <<>>,
              error |-> IssueConstraintError(rows, new[CHOOSE i \in bad : TRUE]),
              table |-> rows]
        ELSE [data |-> IF hit = {} THEN <<>> ELSE <<new[CHOOSE i \in hit : TRUE]>>,
              error |-> NoError, table |-> new]

\* supabase.from('issues').update(updates).eq('id', issueId).select(...): the
\* USING clause of the update policy filters the rows the statement sees
UpdateIssueRows(rows, issueId, updates, uid) ==
    LET hit == {i \in 1..Len(rows) : rows[i].id = issueId /\ StaffCanUpdateIssues(uid)}
        new == [i \in 1..Len(rows) |->
                    IF i \in hit THEN ApplyPatch(rows[i], updates) ELSE rows[i]]
        bad == {i \in hit : IssueConstraintError(rows, new[i]) # NoError}
    IN  IF bad # {}
        THEN [data |-> <<>>,
              error |-> IssueConstraintError(rows, new[CHOOSE i \in bad : TRUE]),
              table |-> rows]
        ELSE [data |-> IF hit = {} THEN <<>> ELSE <<new[CHOOSE i \in hit : TRUE]>>,
              error |-> NoError, table |-> new]

\* .single(): exactly one row, or error PGRST116
single(resp) ==
    IF resp.error # NoError THEN resp
    ELSE IF Len(resp.data) # 1 THEN [resp EXCEPT !.data = <<>>, !.error = "PGRST116"]
    ELSE resp

\* updates:issue_updates(*) embedded in a select of issues: the rows of
\* issue_updates for the issue that the select policy lets the caller see
EmbeddedUpdates(issueId) ==
    {u \in db_issue_updates : u.issue_id = issueId /\ AnyoneCanViewPublicUpdates(u)}

\* rows of a sequence that satisfy P, in order
RECURSIVE SelectSeq2(_, _)
SelectSeq2(rows, keep) ==
    IF rows = <<>> THEN <<>>
    ELSE IF Head(rows).id \in keep THEN <<Head(rows)>> \o SelectSeq2(Tail(rows), keep)
    ELSE SelectSeq2(Tail(rows), keep)

\* supabase.from('issues').select('*, ..., updates:issue_updates(*)')
\*   .eq('anonymous_token', token)
SelectIssuesByToken(rows, token) ==
    LET keep == {rows[i].id : i \in {j \in 1..Len(rows) :
                     rows[j].anonymous_token = token /\ AnyoneCanViewIssues(rows[j])}}
        found == SelectSeq2(rows, keep)
    IN  [data |-> [i \in 1..Len(found) |->
                      found[i] @@ [updates |-> EmbeddedUpdates(found[i].id)]],
         error |-> NoError]

\* .order('created_at', { ascending: false })
RECURSIVE OrderByCreatedAtDesc(_)
OrderByCreatedAtDesc(rows) ==
    IF rows = <<>> THEN <<>>
    ELSE LET m == CHOOSE i \in 1..Len(rows) :
                    \A j \in 1..Len(rows) :
                        \/ rows[i].created_at > rows[j].created_at
                        \/ (rows[i].created_at = rows[j].created_at /\ i <= j)
             rest == [k \in 1..(Len(rows) - 1) |-> IF k < m THEN rows[k] ELSE rows[k + 1]]
         IN  <<rows[m]>> \o OrderByCreatedAtDesc(rest)

\* supabase.from('issues').select('*, ...').order('created_at', ...)
SelectAllIssues(rows) ==
    [data |-> OrderByCreatedAtDesc(SelectSeq2(rows,
                  {rows[i].id : i \in {j \in 1..Len(rows) : AnyoneCanViewIssues(rows[j])}})),
     error |-> NoError]

\* a request that never reaches the store
NetworkError == [data |-> <<>>, error |-> "network"]

-----------------------------------------------------------------------------
(* src/hooks/useIssues.ts: the data-access hook.  Each operator is one call  *)
(* of the hook function in the current state: what the promise settles to,   *)
(* the toasts it emits, and the store and hook state it leaves.              *)
(* uid is the auth.uid() of the session, fail the number of the request of   *)
(* the call that meets a transport failure (0: none).                        *)

\* localStorage.setItem(key, value)
setItem(store, key, value) ==
    {kv \in store : kv[1] # key} \cup {<<key, value>>}

\* InsertDataOf passing the caller's status on
InsertDataOf_WithStatus(issueData, tokenData) ==
    [title |-> issueData.title,
     description |-> issueData.description,
     category_id |-> issueData.category_id,
     severity |-> issueData.severity,
     status |-> issueData.status,
     anonymous_token |-> tokenData]

\* InsertDataOf without the category
InsertDataOf_NoCategory(issueData, tokenData) ==
    [title |-> issueData.title,
     description |-> issueData.description,
     category_id |-> NULL,
     severity |-> issueData.severity,
     anonymous_token |-> tokenData]

\* createIssue: const insertData = {...}
InsertDataOf(issueData, tokenData) ==
    [title |-> issueData.title,
     description |-> issueData.description,
     category_id |-> issueData.category_id,
     severity |-> issueData.severity,
     anonymous_token |-> tokenData]

\* createIssue storing the token before the insert is answered
createIssue_StoresTokenFirst(issueData, tokenData, uid, fail) ==
    LET tokenResp == IF fail = 1 THEN NetworkError
                     ELSE [data |-> <<tokenData>>, error |-> NoError]
        ins == IF fail = 2
               THEN [data |-> <<>>, error |-> "network", table |-> db_issues]
               ELSE single(InsertIssue(db_issues, InsertDataOf(issueData, tokenData), uid))
        resp == IF tokenResp.error # NoError
                THEN [data |-> <<>>, error |-> tokenResp.error, table |-> db_issues]
                ELSE ins
        stored == setItem(localStorage, <<"issue_token_", Len(db_issues) + 1>>, tokenData)
    IN  IF resp.error # NoError
        THEN [outcome |-> "rejected", data |-> <<>>, token |-> NULL,
              error |-> resp.error, toasts |-> <<"Error reporting issue">>,
              table |-> resp.table, issues |-> issues,
              localStorage |-> IF tokenResp.error = NoError THEN stored ELSE localStorage]
        ELSE [outcome |-> "resolved", data |-> resp.data, token |-> tokenData,
              error |-> NoError, toasts |-> <<"Issue reported successfully">>,
              table |-> resp.table,
              issues |-> <<resp.data[1]>> \o issues,
              localStorage |-> stored]

\* createIssue(issueData); tokenData is what generate_anonymous_token returns
createIssue(issueData, tokenData, uid, fail) ==
    LET tokenResp == IF fail = 1 THEN NetworkError
                     ELSE [data |-> <<tokenData>>, error |-> NoError]
        ins == IF fail = 2
               THEN [data |-> <<>>, error |-> "network", table |-> db_issues]
               ELSE single(InsertIssue(db_issues, InsertDataOf(issueData, tokenData), uid))
        resp == IF tokenResp.error # NoError
                THEN [data |-> <<>>, error |-> tokenResp.error, table |-> db_issues]
                ELSE ins
    IN  IF resp.error # NoError
        THEN [outcome |-> "rejected", data |-> <<>>, token |-> NULL,
              error |-> resp.error, toasts |-> <<"Error reporting issue">>,
              table |-> resp.table, issues |-> issues, localStorage |-> localStorage]
        ELSE [outcome |-> "resolved", data |-> resp.data, token |-> tokenData,
              error |-> NoError, toasts |-> <<"Issue reported successfully">>,
              table |-> resp.table,
              issues |-> <<resp.data[1]>> \o issues,
              localStorage |-> setItem(localStorage,
                                       <<"issue_token_", resp.data[1].id>>, tokenData)]

\* updateIssue without the setIssues that replaces the issue in the list
updateIssue_ListNotUpdated(issueId, updates, uid, fail) ==
    LET resp == IF fail = 1
                THEN [data |-> <<>>, error |-> "network", table |-> db_issues]
                ELSE single(UpdateIssueRows(db_issues, issueId, updates, uid))
    IN  IF resp.error # NoError
        THEN [outcome |-> "rejected", data |-> <<>>, token |-> NULL,
              error |-> resp.error, toasts |-> <<"Error updating issue">>,
              table |-> resp.table, issues |-> issues, localStorage |-> localStorage]
        ELSE [outcome |-> "resolved", data |-> resp.data, token |-> NULL,
              error |-> NoError, toasts |-> <<"Issue updated successfully">>,
              table |-> resp.table, issues |-> issues, localStorage |-> localStorage]

\* updateIssue with a catch block that does not rethrow and reports success
updateIssue_ErrorSwallowed(issueId, updates, uid, fail) ==
    LET resp == IF fail = 1
                THEN [data |-> <<>>, error |-> "network", table |-> db_issues]
                ELSE single(UpdateIssueRows(db_issues, issueId, updates, uid))
    IN  IF resp.error # NoError
        THEN [outcome |-> "resolved", data |-> <<>>, token |-> NULL,
              error |-> resp.error, toasts |-> <<"Issue updated successfully">>,
              table |-> resp.table, issues |-> issues, localStorage |-> localStorage]
        ELSE [outcome |-> "resolved", data |-> resp.data, token |-> NULL,
              error |-> NoError, toasts |-> <<"Issue updated successfully">>,
              table |-> resp.table,
              issues |-> [i \in 1..Len(issues) |->
                            IF issues[i].id = issueId THEN resp.data[1] ELSE issues[i]],
              localStorage |-> localStorage]

\* updateIssueSettled putting the returned row in front of a list that does
\* not hold the issue
updateIssueSettled_AddsMissing(resp, issueId, prev) ==
    IF resp.error # NoError
    THEN [outcome |-> "rejected", data |-> <<>>, token |-> NULL,
          error |-> resp.error, toasts |-> <<"Error updating issue">>,
          table |-> resp.table, issues |-> prev, localStorage |-> localStorage]
    ELSE [outcome |-> "resolved", data |-> resp.data, token |-> NULL,
          error |-> NoError, toasts |-> <<"Issue updated successfully">>,
          table |-> resp.table,
          issues |-> IF \E i \in 1..Len(prev) : prev[i].id = issueId
                     THEN [i \in 1..Len(prev) |->
                              IF prev[i].id = issueId THEN resp.data[1] ELSE prev[i]]
                     ELSE <<resp.data[1]>> \o prev,
          localStorage |-> localStorage]

\* updateIssue(issueId, updates) from the answer of the store on: the throw
\* or setIssues(prev => prev.map(...)), the toast and the result
updateIssueSettled(resp, issueId, prev) ==
    IF resp.error # NoError
    THEN [outcome |-> "rejected", data |-> <<>>, token |-> NULL,
          error |-> resp.error, toasts |-> <<"Error updating issue">>,
          table |-> resp.table, issues |-> prev, localStorage |-> localStorage]
    ELSE [outcome |-> "resolved", data |-> resp.data, token |-> NULL,
          error |-> NoError, toasts |-> <<"Issue updated successfully">>,
          table |-> resp.table,
          issues |-> [i \in 1..Len(prev) |->
                        IF prev[i].id = issueId THEN resp.data[1] ELSE prev[i]],
          localStorage |-> localStorage]

\* updateIssue(issueId, updates)
updateIssue(issueId, updates, uid, fail) ==
    updateIssueSettled(IF fail = 1
                       THEN [data |-> <<>>, error |-> "network", table |-> db_issues]
                       ELSE single(UpdateIssueRows(db_issues, issueId, updates, uid)),
                       issueId, issues)

\* trackIssueByToken(token)
trackIssueByToken(token, uid, fail) ==
    LET resp == IF fail = 1 THEN NetworkError
                ELSE single(SelectIssuesByToken(db_issues, token))
    IN  IF resp.error # NoError
        THEN [outcome |-> "rejected", data |-> <<>>, token |-> token,
              error |-> resp.error, toasts |-> <<"Issue not found">>,
              table |-> db_issues, issues |-> issues, localStorage |-> localStorage]
        ELSE [outcome |-> "resolved", data |-> resp.data, token |-> token,
              error |-> NoError, toasts |-> <<>>,
              table |-> db_issues, issues |-> issues, localStorage |-> localStorage]

\* fetchIssues with a catch block that empties the list
fetchIssues_ClearsOnError(uid, fail) ==
    LET resp == IF fail = 1 THEN NetworkError ELSE SelectAllIssues(db_issues)
    IN  IF resp.error # NoError
        THEN [outcome |-> "resolved", data |-> <<>>, token |-> NULL,
              error |-> resp.error, toasts |-> <<"Error loading issues">>,
              table |-> db_issues, issues |-> <<>>, localStorage |-> localStorage]
        ELSE [outcome |-> "resolved", data |-> <<>>, token |-> NULL,
              error |-> NoError, toasts |-> <<>>,
              table |-> db_issues, issues |-> resp.data, localStorage |-> localStorage]

\* fetchIssues() from the answer of the store on: setIssues(transformedIssues),
\* or the toast of the catch block
fetchIssuesSettled(resp, prev) ==
    IF resp.error # NoError
    THEN [outcome |-> "resolved", data |-> <<>>, token |-> NULL,
          error |-> resp.error, toasts |-> <<"Error loading issues">>,
          table |-> db_issues, issues |-> prev, localStorage |-> localStorage]
    ELSE [outcome |-> "resolved", data |-> <<>>, token |-> NULL,
          error |-> NoError, toasts |-> <<>>,
          table |-> db_issues, issues |-> resp.data, localStorage |-> localStorage]

\* fetchIssues()
fetchIssues(uid, fail) ==
    fetchIssuesSettled(IF fail = 1 THEN NetworkError ELSE SelectAllIssues(db_issues),
                       issues)

-----------------------------------------------------------------------------
(* Pages *)

\* reportSchema without the minimum length of the title
reportSchema_NoTitleMin(data) ==
    /\ Len(data.description) >= 20
    /\ Len(data.category_id) >= 1
    /\ data.severity \in {"low", "medium", "high", "critical"}

\* const reportSchema = z.object({...}): whether the form values parse
reportSchema(data) ==
    /\ Len(data.title) >= 5
    /\ Len(data.description) >= 20
    /\ Len(data.category_id) >= 1
    /\ data.severity \in {"low", "medium", "high", "critical"}

\* ReportIssue.handleSubmit: const issueData = {...}; user is useAuth().user
IssueDataOf(data, user) ==
    [title |-> data.title,
     description |-> data.description,
     category_id |-> data.category_id,
     severity |-> data.severity,
     reporter_id |-> IF data.anonymous THEN NULL ELSE user,
     status |-> "open"]

\* ReportIssue.handleSubmit: the toast after createIssue settles
handleSubmitToast(r) ==
    IF r.outcome = "resolved" THEN "Report submitted successfully"
    ELSE "Failed to submit report"

\* token.trim() on the tokens of the model: only the blank ones change
trim(token) == IF token = " " THEN "" ELSE token

\* TrackIssue.handleTrack (form version): what the page ends in, given what
\* trackIssueByToken settled to
handleTrackForm(r) ==
    IF r.outcome = "rejected"
    THEN [page |-> "error", toasts |-> <<"Error tracking issue">>,
          trackedIssue |-> trackedIssue, error |-> error]
    ELSE IF r.data # <<>>
    THEN [page |-> "found", toasts |-> <<"Issue found">>,
          trackedIssue |-> r.data, error |-> error]
    ELSE [page |-> "not_found", toasts |-> <<"Issue not found">>,
          trackedIssue |-> trackedIssue, error |-> error]

\* TrackIssue.handleTrack (token-input version), after setError(null)
handleTrack(r) ==
    IF r.outcome = "rejected"
    THEN [page |-> "error", toasts |-> <<>>,
          trackedIssue |-> trackedIssue,
          error |-> "Failed to track issue. Please try again."]
    ELSE IF r.data # <<>>
    THEN [page |-> "found", toasts |-> <<>>,
          trackedIssue |-> r.data, error |-> NULL]
    ELSE [page |-> "not_found", toasts |-> <<>>,
          trackedIssue |-> trackedIssue,
          error |-> "Issue not found. Please check your tracking token."]

-----------------------------------------------------------------------------
(* Inputs *)

\* Partial<Issue> values passed to createIssue; NULL is an undefined key
IssueInputs ==
    { [title |-> "Broken light in lobby",
       description |-> "The lobby light has flickered for two weeks and now stays off.",
       category_id |-> "cat_other", severity |-> "low",
       reporter_id |-> NULL, status |-> "open"],
      [title |-> "Unpaid overtime", description |-> "Overtime of the last quarter was not paid.",
       category_id |-> "cat_harassment", severity |-> "critical",
       reporter_id |-> NULL, status |-> "closed"],
      [title |-> NULL, description |-> "Overtime of the last quarter was not paid.",
       category_id |-> NoSuchCategory, severity |-> "urgent",
       reporter_id |-> NULL, status |-> NULL],
      [title |-> "Broken light in lobby",
       description |-> "The lobby light has flickered for two weeks and now stays off.",
       category_id |-> NULL, severity |-> "low",
       reporter_id |-> NULL, status |-> NULL] }

\* values of the report form that pass reportSchema
FormInputs ==
    { [title |-> "Broken light in lobby",
       description |-> "The lobby light has flickered for two weeks and now stays off.",
       category_id |-> "cat_other", severity |-> "low", anonymous |-> a] : a \in BOOLEAN }

\* values the report form can hold when it is submitted: the ones that pass
\* reportSchema, and ones with a short title, a short description, no
\* category or a severity outside the enum
TypedFormInputs ==
    FormInputs \cup
    { [title |-> t[1], description |-> t[2], category_id |-> t[3], severity |-> t[4],
       anonymous |-> FALSE] :
        t \in { <<"Lamp", "The lobby light has flickered for two weeks.", "cat_other", "low">>,
                <<"Broken light in lobby", "It is off.", "cat_other", "low">>,
                <<"Broken light in lobby", "The lobby light has flickered for two weeks.",
                  "", "medium">>,
                <<"Broken light in lobby", "The lobby light has flickered for two weeks.",
                  "cat_other", "urgent">> } }

\* Partial<Issue> values passed to updateIssue
Patches ==
    { [status |-> "resolved"],
      [status |-> "escalated"],
      [anonymous_token |-> "tokA"] }

\* ids passed to updateIssue: a sample issue, and an id no issue has
UpdateIds == {2, 99}

\* tokens passed to trackIssueByToken
TrackTokens == {"mnt_2", "tokA", "never-issued"}

\* tokens typed into the track page
TypedTokens == TrackTokens \cup {"", " "}

\* the accounts that exist, and the unauthenticated caller
Callers == {NULL} \cup {db_profiles[i].user_id : i \in 1..Len(db_profiles)}

-----------------------------------------------------------------------------
(* State machine *)

\* the record of the last operation: who ran it, what the hook's promise
\* settled to, the toasts of hook and page in order, the page's outcome, and
\* for a lookup the input of the createIssue it follows (Follows)
Op(op, uid, r, toasts, page, follows) ==
    [op |-> op, uid |-> uid,
     outcome |-> r.outcome, data |-> r.data, token |-> r.token, error |-> r.error,
     toasts |-> toasts, page |-> page, follows |-> follows]

NoOp ==
    [op |-> "none", uid |-> NULL,
     outcome |-> "none", data |-> <<>>, token |-> NULL, error |-> NoError,
     toasts |-> <<>>, page |-> "none", follows |-> <<>>]

\* two browser sessions, each with a useIssues instance of its own
Sessions == {"s1", "s2"}

\* defaultValues of useForm in ReportIssue: the fields that the buttons of
\* the wizard read
defaultValues ==
    [title |-> "", description |-> "", category_id |-> "", severity |-> "medium"]

\* the browser tabs in which the profile page can be open
Tabs == {"tab1", "tab2"}

\* a tab in which the profile page is not mounted
ClosedTab == [user |-> NULL, pc |-> "closed", profile |-> <<>>, toast |-> NULL]

\* handle_new_user(): the profile row the sign-up trigger inserts
handle_new_user(id, role) ==
    [user_id |-> id, role |-> IF role = NULL THEN "employee" ELSE role]

\* the store once the migrations have run on a project without accounts
\* ((SELECT user_id FROM profiles LIMIT 1) is NULL) and the accounts have
\* signed up, and a freshly mounted hook
Init ==
    /\ db_profiles = [i \in 1..Len(Accounts) |->
                          handle_new_user(Accounts[i][1], Accounts[i][2])]
    /\ db_issues = SampleIssues(NULL)
    /\ db_issue_updates = SampleIssueUpdates(NULL)
    /\ db_anonymous_tokens = SampleAnonymousTokens(SampleIssues(NULL))
    /\ issues = <<>>
    /\ localStorage = {}
    /\ trackedIssue = <<>>
    /\ error = NULL
    /\ searchTerm = <<>>
    /\ statusFilter = "all"
    /\ severityFilter = "all"
    /\ categories = {}
    /\ departments = {}
    /\ loading = [useIssues |-> TRUE, ReportIssue |-> FALSE, TrackIssue |-> FALSE]
    /\ pc = [useIssues |-> "effect", ReportIssue |-> <<>>, TrackIssue |-> <<>>]
    /\ last = NoOp
    /\ auth_users = [i \in 1..Len(Accounts) |->
                         [id |-> Accounts[i][1], role |-> Accounts[i][2]]]
    /\ tabs = [t \in Tabs |-> ClosedTab]
    /\ net = {}
    /\ hooks = [s \in Sessions |-> <<>>]
    /\ submittedToken = NULL
    /\ step = 1
    /\ form = defaultValues

\* rows of issues and issue_updates inserted since the sample data
NewRows ==
    (Len(db_issues) - NumSampleIssues)
    + (Cardinality(db_issue_updates) - Cardinality(SampleIssueUpdates(NULL)))

\* the createIssue result that the operation before this one returned, when
\* it returned `token`: the input it was given
Follows(token) ==
    IF last.op \in {"createIssue", "handleSubmit"} /\ last.outcome = "resolved"
          /\ last.token = token
    THEN last.follows ELSE <<>>

\* the hook's createIssue called with a Partial<Issue>
CreateIssue ==
    \E issueData \in IssueInputs, tokenData \in GenTokens, uid \in Callers, fail \in 0..2 :
        LET r == createIssue(issueData, tokenData, uid, fail)
        IN  /\ r.outcome = "resolved" => NewRows < MaxNewRows
            /\ db_issues' = r.table
            /\ issues' = r.issues
            /\ localStorage' = r.localStorage
            /\ last' = Op("createIssue", uid, r, r.toasts, "none",
                          IF r.outcome = "resolved" THEN <<issueData>> ELSE <<>>)
            /\ UNCHANGED <<dashVars, asyncVars, db_issue_updates, db_anonymous_tokens, db_profiles, extVars,
                           trackedIssue, error>>

\* the hook's updateIssue called with an id and a Partial<Issue>
UpdateIssue ==
    \E issueId \in UpdateIds, updates \in Patches, uid \in Callers, fail \in 0..1 :
        LET r == updateIssue(issueId, updates, uid, fail)
        IN  /\ db_issues' = r.table
            /\ issues' = r.issues
            /\ last' = Op("updateIssue", uid, r, r.toasts, "none", <<>>)
            /\ UNCHANGED <<dashVars, asyncVars, db_issue_updates, db_anonymous_tokens, db_profiles, extVars,
                           localStorage, trackedIssue, error>>

\* the hook's refetch
FetchIssues ==
    \E uid \in Callers, fail \in 0..1 :
        LET r == fetchIssues(uid, fail)
        IN  /\ issues' = r.issues
            /\ last' = Op("fetchIssues", uid, r, r.toasts, "none", <<>>)
            /\ UNCHANGED <<dashVars, asyncVars, db_issues, db_issue_updates, db_anonymous_tokens, db_profiles, extVars,
                           localStorage, trackedIssue, error>>

\* the hook's trackIssueByToken called with a token
TrackIssueByToken ==
    \E token \in TrackTokens, uid \in Callers, fail \in 0..1 :
        LET r == trackIssueByToken(token, uid, fail)
        IN  /\ last' = Op("trackIssueByToken", uid, r, r.toasts, "none", Follows(token))
            /\ UNCHANGED <<dashVars, asyncVars, db_issues, db_issue_updates, db_anonymous_tokens, db_profiles, extVars,
                           issues, localStorage, trackedIssue, error>>

\* an INSERT into issue_updates through the REST endpoint of the store
InsertIssueUpdate ==
    \E uid \in Callers, public \in BOOLEAN :
        LET ok == StaffCanCreateUpdates(uid)
            row == [id |-> Cardinality(db_issue_updates) + 1, issue_id |-> 2,
                    update_type |-> "comment", old_status |-> NULL, new_status |-> NULL,
                    created_by |-> uid, is_public |-> public]
            r == [outcome |-> IF ok THEN "resolved" ELSE "rejected",
                  data |-> <<>>, token |-> NULL,
                  error |-> IF ok THEN NoError ELSE "42501"]
        IN  /\ ok => NewRows < MaxNewRows
            /\ db_issue_updates' = IF ok THEN db_issue_updates \cup {row}
                                   ELSE db_issue_updates
            /\ last' = Op("insertIssueUpdate", uid, r, <<>>, "none", <<>>)
            /\ UNCHANGED <<dashVars, asyncVars, db_issues, db_anonymous_tokens, db_profiles, extVars,
                           issues, localStorage, trackedIssue, error>>

\* the store and the hook
Next ==
    \/ CreateIssue
    \/ UpdateIssue
    \/ FetchIssues
    \/ TrackIssueByToken
    \/ InsertIssueUpdate

Spec == Init /\ [][Next]_vars

-----------------------------------------------------------------------------
(* The report page and the track pages on top of the hook *)

\* the report form submitted with values that pass reportSchema
HandleSubmit ==
    \E data \in FormInputs, tokenData \in GenTokens, uid \in Callers, fail \in 0..2 :
        LET issueData == IssueDataOf(data, uid)
            r == createIssue(issueData, tokenData, uid, fail)
        IN  /\ r.outcome = "resolved" => NewRows < MaxNewRows
            /\ db_issues' = r.table
            /\ issues' = r.issues
            /\ localStorage' = r.localStorage
            /\ last' = Op("handleSubmit", uid, r, Append(r.toasts, handleSubmitToast(r)),
                          IF r.outcome = "resolved" THEN "submitted" ELSE "error",
                          IF r.outcome = "resolved" THEN <<data @@ [user |-> uid]>> ELSE <<>>)
            /\ UNCHANGED <<dashVars, asyncVars, db_issue_updates, db_anonymous_tokens, db_profiles, extVars,
                           trackedIssue, error>>

\* the track form submitted (trackSchema lets a non-empty token through)
HandleTrackForm ==
    \E token \in TypedTokens, uid \in Callers, fail \in 0..1 :
        /\ Len(token) >= 1
        /\ LET r == trackIssueByToken(token, uid, fail)
               p == handleTrackForm(r)
           IN  /\ trackedIssue' = p.trackedIssue
               /\ error' = p.error
               /\ last' = Op("handleTrackForm", uid, r, r.toasts \o p.toasts, p.page,
                             Follows(token))
        /\ UNCHANGED <<dashVars, asyncVars, db_issues, db_issue_updates, db_anonymous_tokens, db_profiles, extVars,
                       issues, localStorage>>

\* the Track button pressed, or Enter in the token input
HandleTrack ==
    \E token \in TypedTokens, uid \in Callers, fail \in 0..1 :
        IF trim(token) = ""
        THEN /\ error' = "Please enter a tracking token"
             /\ last' = [NoOp EXCEPT !.op = "handleTrack", !.uid = uid, !.token = token,
                                     !.page = "validation"]
             /\ UNCHANGED <<dashVars, asyncVars, db_issues, db_issue_updates, db_anonymous_tokens, db_profiles, extVars,
                            issues, localStorage, trackedIssue>>
        ELSE LET r == trackIssueByToken(token, uid, fail)
                 p == handleTrack(r)
             IN  /\ trackedIssue' = p.trackedIssue
                 /\ error' = p.error
                 /\ last' = Op("handleTrack", uid, r, r.toasts \o p.toasts, p.page,
                               Follows(token))
                 /\ UNCHANGED <<dashVars, asyncVars, db_issues, db_issue_updates, db_anonymous_tokens,
                                db_profiles, extVars, issues, localStorage>>

\* <form onSubmit={form.handleSubmit(handleSubmit)}>: the resolver validates
\* the values and runs handleSubmit only when they parse
OnSubmit ==
    \E data \in TypedFormInputs, tokenData \in GenTokens, uid \in Callers, fail \in 0..2 :
        IF ~reportSchema(data)
        THEN /\ last' = [NoOp EXCEPT !.op = "onSubmit", !.uid = uid,
                                     !.page = "validation", !.follows = <<data>>]
             /\ UNCHANGED <<dashVars, asyncVars, db_issues, db_issue_updates,
                            db_anonymous_tokens, db_profiles, extVars, issues, localStorage,
                            trackedIssue, error>>
        ELSE LET issueData == IssueDataOf(data, uid)
                 r == createIssue(issueData, tokenData, uid, fail)
             IN  /\ r.outcome = "resolved" => NewRows < MaxNewRows
                 /\ db_issues' = r.table
                 /\ issues' = r.issues
                 /\ localStorage' = r.localStorage
                 /\ last' = Op("onSubmit", uid, r, Append(r.toasts, handleSubmitToast(r)),
                               IF r.outcome = "resolved" THEN "submitted" ELSE "error",
                               <<data>>)
                 /\ UNCHANGED <<dashVars, asyncVars, db_issue_updates,
                                db_anonymous_tokens, db_profiles, extVars, trackedIssue, error>>

NextPages ==
    \/ HandleSubmit
    \/ OnSubmit
    \/ HandleTrackForm
    \/ HandleTrack

SpecPages == Init /\ [][NextPages]_vars

-----------------------------------------------------------------------------
(* The Dashboard page (TrackIssue.tsx, const Dashboard): what it renders is  *)
(* a function of the hook's list and of its three filters.  Text is a        *)
(* sequence of characters.                                                   *)

MaxListLen == 2       \* issues in a list the Dashboard is given

\* String.prototype.toLowerCase
toLowerCase(text) ==
    [i \in 1..Len(text) |->
        IF text[i] = "A" THEN "a"
        ELSE IF text[i] = "B" THEN "b"
        ELSE IF text[i] = "C" THEN "c"
        ELSE text[i]]

\* String.prototype.includes
includes(text, term) ==
    IF Len(term) = 0 THEN TRUE
    ELSE \E i \in 1..Len(text) :
            /\ i + Len(term) - 1 <= Len(text)
            /\ SubSeq(text, i, i + Len(term) - 1) = term

\* const matchesSearch = ...
matchesSearch(issue) ==
    \/ includes(toLowerCase(issue.title), toLowerCase(searchTerm))
    \/ includes(toLowerCase(issue.description), toLowerCase(searchTerm))

\* matchesStatus with the resolved filter also showing closed issues
matchesStatus_ResolvedShowsClosed(issue) ==
    \/ statusFilter = "all"
    \/ issue.status = statusFilter
    \/ (statusFilter = "resolved" /\ issue.status = "closed")

\* const matchesStatus = statusFilter === 'all' || issue.status === statusFilter
matchesStatus(issue) ==
    statusFilter = "all" \/ issue.status = statusFilter

\* const matchesSeverity = severityFilter === 'all' || issue.severity === severityFilter
matchesSeverity(issue) ==
    severityFilter = "all" \/ issue.severity = severityFilter

\* Array.prototype.filter with the Dashboard's predicate
RECURSIVE FilterIssues(_)
FilterIssues(list) ==
    IF list = <<>> THEN <<>>
    ELSE IF matchesSearch(Head(list)) /\ matchesStatus(Head(list))
               /\ matchesSeverity(Head(list))
    THEN <<Head(list)>> \o FilterIssues(Tail(list))
    ELSE FilterIssues(Tail(list))

\* const filteredIssues = issues.filter(issue => ...)
filteredIssues == FilterIssues(issues)

\* issues.filter(issue => issue.status === status).length
CountStatus(list, status) ==
    Cardinality({i \in 1..Len(list) : list[i].status = status})

totalIssues == Len(issues)
openIssues == CountStatus(issues, "open")
inProgressIssues == CountStatus(issues, "in_progress")
resolvedIssues == CountStatus(issues, "resolved")

\* const statusData = [...]: the slices of the status distribution chart
statusData ==
    << [name |-> "Open", value |-> openIssues],
       [name |-> "In Progress", value |-> inProgressIssues],
       [name |-> "Resolved", value |-> resolvedIssues] >>

\* Math.round((resolvedIssues / totalIssues) * 100), or 0 without resolved issues
resolutionRate ==
    IF resolvedIssues > 0
    THEN (200 * resolvedIssues + totalIssues) \div (2 * totalIssues)
    ELSE 0

\* the second Dashboard's const stats = {...}
stats ==
    [total |-> Len(issues),
     open |-> CountStatus(issues, "open"),
     inProgress |-> CountStatus(issues, "in_progress"),
     resolved |-> CountStatus(issues, "resolved")]

\* the options of the two Select boxes, and what is typed into the search box
StatusOptions == {"all", "open", "in_progress", "resolved", "closed"}
SeverityOptions == {"all", "critical", "high", "medium", "low"}
SearchTerms == {<<>>, <<"a", "C">>, <<"x">>}

\* issues the hook's list can hold: rows that satisfy the CHECK constraints
DashboardIssues ==
    { [title |-> x[1], description |-> <<"c", "B">>, severity |-> x[2], status |-> st] :
        x \in {<<<<"A", "c">>, "low">>, <<<<"b">>, "critical">>}, st \in Statuses }

\* the Dashboard mounted over a list of the hook
InitDashboard ==
    /\ db_profiles = [i \in 1..Len(Accounts) |->
                          handle_new_user(Accounts[i][1], Accounts[i][2])]
    /\ db_issues = SampleIssues(NULL)
    /\ db_issue_updates = SampleIssueUpdates(NULL)
    /\ db_anonymous_tokens = SampleAnonymousTokens(SampleIssues(NULL))
    /\ \E n \in 0..MaxListLen : issues \in [1..n -> DashboardIssues]
    /\ localStorage = {}
    /\ trackedIssue = <<>>
    /\ error = NULL
    /\ searchTerm = <<>>
    /\ statusFilter = "all"
    /\ severityFilter = "all"
    /\ categories = {}
    /\ departments = {}
    /\ loading = [useIssues |-> TRUE, ReportIssue |-> FALSE, TrackIssue |-> FALSE]
    /\ pc = [useIssues |-> "effect", ReportIssue |-> <<>>, TrackIssue |-> <<>>]
    /\ last = NoOp
    /\ auth_users = [i \in 1..Len(Accounts) |->
                         [id |-> Accounts[i][1], role |-> Accounts[i][2]]]
    /\ tabs = [t \in Tabs |-> ClosedTab]
    /\ net = {}
    /\ hooks = [s \in Sessions |-> <<>>]
    /\ submittedToken = NULL
    /\ step = 1
    /\ form = defaultValues

\* onChange of the search box: setSearchTerm(e.target.value)
SetSearchTerm ==
    \E term \in SearchTerms :
        /\ searchTerm' = term
        /\ UNCHANGED <<db_issues, db_issue_updates, db_anonymous_tokens, db_profiles, extVars,
                       issues, localStorage, trackedIssue, error, asyncVars,
                       statusFilter, severityFilter, last>>

\* onValueChange of the status Select: setStatusFilter
SetStatusFilter ==
    \E value \in StatusOptions :
        /\ statusFilter' = value
        /\ UNCHANGED <<db_issues, db_issue_updates, db_anonymous_tokens, db_profiles, extVars,
                       issues, localStorage, trackedIssue, error, asyncVars,
                       searchTerm, severityFilter, last>>

\* onValueChange of the severity Select: setSeverityFilter
SetSeverityFilter ==
    \E value \in SeverityOptions :
        /\ severityFilter' = value
        /\ UNCHANGED <<db_issues, db_issue_updates, db_anonymous_tokens, db_profiles, extVars,
                       issues, localStorage, trackedIssue, error, asyncVars,
                       searchTerm, statusFilter, last>>

NextDashboard ==
    \/ SetSearchTerm
    \/ SetStatusFilter
    \/ SetSeverityFilter

SpecDashboard == InitDashboard /\ [][NextDashboard]_vars

-----------------------------------------------------------------------------
(* The Dashboard over the hook's list while issues are triaged *)

\* Partial<Issue> values that change the status only
StatusPatches == { [status |-> "open"], [status |-> "resolved"] }

\* the hook's updateIssue called with an id and a new status
UpdateStatus ==
    \E issueId \in UpdateIds, updates \in StatusPatches, uid \in Callers, fail \in 0..1 :
        LET r == updateIssue(issueId, updates, uid, fail)
        IN  /\ db_issues' = r.table
            /\ issues' = r.issues
            /\ last' = Op("updateIssue", uid, r, r.toasts, "none", <<>>)
            /\ UNCHANGED <<dashVars, asyncVars, db_issue_updates, db_anonymous_tokens, db_profiles, extVars,
                           localStorage, trackedIssue, error>>

NextTriage ==
    \/ FetchIssues
    \/ UpdateStatus
    \/ SetStatusFilter

SpecTriage == Init /\ [][NextTriage]_vars

-----------------------------------------------------------------------------
(* The async functions, step by step: each sets its loading flag, awaits    *)
(* the hook, and runs on when the promise settles.                           *)

\* INSERT INTO public.departments (name, description) VALUES ...
DepartmentNames ==
    {"Human Resources", "Engineering", "Sales", "Marketing", "Operations",
     "Finance", "General"}

\* the sessions that load the lists and track a token here: the select
\* policies read no session, so the unauthenticated one stands for all
Visitors == {NULL}

\* fetchCategories(): the categories it leaves; a failure is only logged
fetchCategories(fail) ==
    IF fail = 1 THEN [toasts |-> <<>>, categories |-> categories]
    ELSE [toasts |-> <<>>, categories |-> CategoryIds]

\* fetchDepartments(): the departments it leaves; a failure is only logged
fetchDepartments(fail) ==
    IF fail = 1 THEN [toasts |-> <<>>, departments |-> departments]
    ELSE [toasts |-> <<>>, departments |-> DepartmentNames]

\* loadData: the flag after await Promise.all([...]); none of the three
\* rejects, so setLoading(false) is reached
loadDataLoading(r) == FALSE

\* handleSubmit with setLoading(false) at the end of the try block
handleSubmitLoading_InTryOnly(r) == r.outcome # "resolved"

\* ReportIssue.handleSubmit: finally { setLoading(false) }
handleSubmitLoading(r) == FALSE

\* TrackIssue.handleTrack: finally { setLoading(false) }
handleTrackLoading(r) == FALSE

\* useEffect(() => { loadData() }, []): loadData up to its await
LoadDataStart ==
    /\ pc.useIssues = "effect"
    /\ loading' = [loading EXCEPT !.useIssues = TRUE]
    /\ pc' = [pc EXCEPT !.useIssues = "awaiting"]
    /\ UNCHANGED <<db_issues, db_issue_updates, db_anonymous_tokens, db_profiles, extVars,
                   issues, localStorage, trackedIssue, error, dashVars,
                   categories, departments, last>>

\* loadData once the three fetches have settled
LoadDataSettle ==
    /\ pc.useIssues = "awaiting"
    /\ \E uid \in Visitors, failIssues \in 0..1, failCategories \in 0..1,
          failDepartments \in 0..1 :
          LET r == fetchIssues(uid, failIssues)
              c == fetchCategories(failCategories)
              d == fetchDepartments(failDepartments)
          IN  /\ issues' = r.issues
              /\ categories' = c.categories
              /\ departments' = d.departments
              /\ loading' = [loading EXCEPT !.useIssues = loadDataLoading(r)]
              /\ last' = Op("loadData", uid, r, r.toasts \o c.toasts \o d.toasts,
                            "none", <<>>)
    /\ pc' = [pc EXCEPT !.useIssues = "done"]
    /\ UNCHANGED <<db_issues, db_issue_updates, db_anonymous_tokens, db_profiles, extVars,
                   localStorage, trackedIssue, error, dashVars>>

\* handleSubmit up to await createIssue(issueData)
SubmitStart ==
    /\ pc.ReportIssue = <<>>
    /\ NewRows < MaxNewRows
    /\ \E data \in FormInputs :
          pc' = [pc EXCEPT !.ReportIssue = <<data>>]
    /\ loading' = [loading EXCEPT !.ReportIssue = TRUE]
    /\ UNCHANGED <<db_issues, db_issue_updates, db_anonymous_tokens, db_profiles, extVars,
                   issues, localStorage, trackedIssue, error, dashVars,
                   categories, departments, last>>

\* handleSubmit once createIssue has settled
SubmitSettle ==
    /\ pc.ReportIssue # <<>>
    /\ \E tokenData \in GenTokens, uid \in Callers, fail \in 0..2 :
          LET data == pc.ReportIssue[1]
              r == createIssue(IssueDataOf(data, uid), tokenData, uid, fail)
          IN  /\ db_issues' = r.table
              /\ issues' = r.issues
              /\ localStorage' = r.localStorage
              /\ loading' = [loading EXCEPT !.ReportIssue = handleSubmitLoading(r)]
              /\ last' = Op("handleSubmit", uid, r, Append(r.toasts, handleSubmitToast(r)),
                            IF r.outcome = "resolved" THEN "submitted" ELSE "error",
                            IF r.outcome = "resolved"
                            THEN <<data @@ [user |-> uid]>> ELSE <<>>)
    /\ pc' = [pc EXCEPT !.ReportIssue = <<>>]
    /\ UNCHANGED <<db_issue_updates, db_anonymous_tokens, db_profiles, extVars,
                   trackedIssue, error, dashVars, categories, departments>>

\* handleTrack (token-input version) up to await trackIssueByToken(token)
TrackStart ==
    /\ pc.TrackIssue = <<>>
    /\ \E token \in TypedTokens :
          IF trim(token) = ""
          THEN /\ error' = "Please enter a tracking token"
               /\ UNCHANGED <<loading, pc>>
          ELSE /\ error' = NULL
               /\ loading' = [loading EXCEPT !.TrackIssue = TRUE]
               /\ pc' = [pc EXCEPT !.TrackIssue = <<token>>]
    /\ UNCHANGED <<db_issues, db_issue_updates, db_anonymous_tokens, db_profiles, extVars,
                   issues, localStorage, trackedIssue, dashVars,
                   categories, departments, last>>

\* handleTrack once trackIssueByToken has settled
TrackSettle ==
    /\ pc.TrackIssue # <<>>
    /\ \E uid \in Visitors, fail \in 0..1 :
          LET token == pc.TrackIssue[1]
              r == trackIssueByToken(token, uid, fail)
              p == handleTrack(r)
          IN  /\ trackedIssue' = p.trackedIssue
              /\ error' = p.error
              /\ loading' = [loading EXCEPT !.TrackIssue = handleTrackLoading(r)]
              /\ last' = Op("handleTrack", uid, r, r.toasts \o p.toasts, p.page, <<>>)
    /\ pc' = [pc EXCEPT !.TrackIssue = <<>>]
    /\ UNCHANGED <<db_issues, db_issue_updates, db_anonymous_tokens, db_profiles, extVars,
                   issues, localStorage, dashVars, categories, departments>>

NextLoading ==
    \/ LoadDataStart
    \/ LoadDataSettle
    \/ SubmitStart
    \/ SubmitSettle
    \/ TrackStart
    \/ TrackSettle

\* the steps of LoadDataStart, LoadDataSettle, SubmitSettle and TrackSettle as
\* pc shows them: each of the four is enabled whenever its pc guard holds,
\* and no other step of NextLoading changes pc this way
LoadDataStarts == pc.useIssues = "effect" /\ pc' = [pc EXCEPT !.useIssues = "awaiting"]
LoadDataSettles == pc.useIssues = "awaiting" /\ pc' = [pc EXCEPT !.useIssues = "done"]
SubmitSettles == pc.ReportIssue # <<>> /\ pc' = [pc EXCEPT !.ReportIssue = <<>>]
TrackSettles == pc.TrackIssue # <<>> /\ pc' = [pc EXCEPT !.TrackIssue = <<>>]

\* an effect runs once the component is mounted, and every request settles:
\* the continuation of an await is scheduled when its promise settles
SpecLoading ==
    /\ Init
    /\ [][NextLoading]_vars
    /\ WF_pc(LoadDataStarts)
    /\ WF_pc(LoadDataSettles)
    /\ WF_pc(SubmitSettles)
    /\ WF_pc(TrackSettles)

-----------------------------------------------------------------------------
(* Accounts and the profile page *)

\* how many accounts sign up
MaxSignUps == 3

\* the ids auth.users gives to new accounts, in order
UserIds == <<"n1", "n2", "n3", "n4", "n5">>

\* raw_user_meta_data ->> 'role' of a new account: what the sign-up form
\* sends, or nothing for an account created without the form
MetaRoles == SignUpFormRoles \cup {NULL}

\* an account that existed before the trigger on_auth_user_created did
LegacyUsers == <<[id |-> "u0", role |-> "manager"]>>

\* the two profile pages: the role each gives to the profile it creates
ProfilePages == {"part_000", "part_001"}

\* profiles.user_id is the target of the foreign keys issues.assigned_to,
\* issue_updates.created_by and profiles.manager_id, so it is unique
ProfileUserIdIsUnique_NotEnforced(row) == TRUE

\* profiles.user_id is the target of the foreign keys issues.assigned_to,
\* issue_updates.created_by and profiles.manager_id, so it is unique
ProfileUserIdIsUnique(row) ==
    \A i \in DOMAIN db_profiles : db_profiles[i].user_id # row.user_id

\* from('profiles').insert([row]).select().single()
InsertProfile(row) ==
    IF ~ProfileUserIdIsUnique(row)
    THEN [error |-> "23505", data |-> <<>>, table |-> db_profiles]
    ELSE [error |-> NoError, data |-> <<row>>, table |-> Append(db_profiles, row)]

\* from('profiles').select('*').eq('user_id', id).single()
SelectProfile(id) ==
    LET rows == SelectSeq(db_profiles, LAMBDA p : p.user_id = id)
    IN  IF Len(rows) = 1
        THEN [error |-> NoError, data |-> rows]
        ELSE [error |-> "PGRST116", data |-> <<>>]

\* the account with this id
UserOf(id) ==
    auth_users[CHOOSE i \in DOMAIN auth_users : auth_users[i].id = id]

\* initialProfile of createInitialProfile / newProfile of fetchProfile
newProfile(page, user) ==
    [user_id |-> user.id,
     role |-> IF page = "part_000" \/ user.role = NULL
              THEN "employee" ELSE user.role]

\* supabase.auth.signUp: the row of auth.users and, in the same transaction,
\* the row handle_new_user inserts AFTER INSERT ON auth.users
SignUp ==
    \E role \in MetaRoles :
        /\ Len(auth_users) < Len(LegacyUsers) + MaxSignUps
        /\ LET id == UserIds[Len(auth_users)]
           IN  /\ auth_users' = Append(auth_users, [id |-> id, role |-> role])
               /\ db_profiles' = Append(db_profiles, handle_new_user(id, role))
        /\ UNCHANGED <<db_issues, db_issue_updates, db_anonymous_tokens,
                       issues, localStorage, trackedIssue, error, dashVars,
                       asyncVars, last, tabs, raceVars, wizardVars>>

\* the profile page mounts in a tab of the browser whose session is `user`:
\* useEffect calls fetchProfile, which sends its select
FetchProfile ==
    \E t \in Tabs, i \in DOMAIN auth_users, page \in ProfilePages :
        /\ tabs[t].pc = "closed"
        /\ \A o \in Tabs : tabs[o].user \in {NULL, auth_users[i].id}
        /\ tabs' = [tabs EXCEPT ![t] = [user |-> auth_users[i].id, pc |-> <<page, "select">>,
                                        profile |-> <<>>, toast |-> NULL]]
        /\ UNCHANGED <<db_issues, db_issue_updates, db_anonymous_tokens, db_profiles,
                       issues, localStorage, trackedIssue, error, dashVars,
                       asyncVars, last, auth_users, raceVars, wizardVars>>

\* the select of fetchProfile is answered: the profile is shown, or with
\* PGRST116 the insert of the create-if-missing path is sent
FetchProfileSelected ==
    \E t \in Tabs :
        /\ tabs[t].pc # "closed" /\ tabs[t].pc[2] = "select"
        /\ LET r == SelectProfile(tabs[t].user)
           IN  tabs' = [tabs EXCEPT ![t] =
                   IF r.error = NoError
                   THEN [@ EXCEPT !.pc = <<tabs[t].pc[1], "done">>, !.profile = r.data]
                   ELSE [@ EXCEPT !.pc = <<tabs[t].pc[1], "insert">>]]
        /\ UNCHANGED <<db_issues, db_issue_updates, db_anonymous_tokens, db_profiles,
                       issues, localStorage, trackedIssue, error, dashVars,
                       asyncVars, last, auth_users, raceVars, wizardVars>>

\* the insert of createInitialProfile / of fetchProfile is answered: the
\* created profile is shown, or the error is toasted
CreateInitialProfile ==
    \E t \in Tabs :
        /\ tabs[t].pc # "closed" /\ tabs[t].pc[2] = "insert"
        /\ LET r == InsertProfile(newProfile(tabs[t].pc[1], UserOf(tabs[t].user)))
           IN  /\ db_profiles' = r.table
               /\ tabs' = [tabs EXCEPT ![t] =
                      IF r.error = NoError
                      THEN [@ EXCEPT !.pc = <<tabs[t].pc[1], "done">>, !.profile = r.data]
                      ELSE [@ EXCEPT !.pc = <<tabs[t].pc[1], "done">>, !.toast = r.error]]
        /\ UNCHANGED <<db_issues, db_issue_updates, db_anonymous_tokens,
                       issues, localStorage, trackedIssue, error, dashVars,
                       asyncVars, last, auth_users, raceVars, wizardVars>>

\* the tab is closed or signs out
CloseTab ==
    \E t \in Tabs :
        /\ tabs[t].pc # "closed" /\ tabs[t].pc[2] = "done"
        /\ tabs' = [tabs EXCEPT ![t] = ClosedTab]
        /\ UNCHANGED <<db_issues, db_issue_updates, db_anonymous_tokens, db_profiles,
                       issues, localStorage, trackedIssue, error, dashVars,
                       asyncVars, last, auth_users, raceVars, wizardVars>>

\* the store with the legacy account only, before anyone signs up
InitProfiles ==
    /\ db_profiles = <<>>
    /\ auth_users = LegacyUsers
    /\ tabs = [t \in Tabs |-> ClosedTab]
    /\ net = {}
    /\ hooks = [s \in Sessions |-> <<>>]
    /\ submittedToken = NULL
    /\ step = 1
    /\ form = defaultValues
    /\ db_issues = SampleIssues(NULL)
    /\ db_issue_updates = SampleIssueUpdates(NULL)
    /\ db_anonymous_tokens = SampleAnonymousTokens(SampleIssues(NULL))
    /\ issues = <<>>
    /\ localStorage = {}
    /\ trackedIssue = <<>>
    /\ error = NULL
    /\ searchTerm = <<>>
    /\ statusFilter = "all"
    /\ severityFilter = "all"
    /\ categories = {}
    /\ departments = {}
    /\ loading = [useIssues |-> TRUE, ReportIssue |-> FALSE, TrackIssue |-> FALSE]
    /\ pc = [useIssues |-> "effect", ReportIssue |-> <<>>, TrackIssue |-> <<>>]
    /\ last = NoOp

NextProfiles ==
    \/ SignUp
    \/ FetchProfile
    \/ FetchProfileSelected
    \/ CreateInitialProfile
    \/ CloseTab

SpecProfiles == InitProfiles /\ [][NextProfiles]_vars

-----------------------------------------------------------------------------
(* Two browser sessions of privileged accounts updating the same issue *)

\* the account signed in in each session, and its role
SessionAccounts == [s1 |-> <<"u2", "staff">>, s2 |-> <<"u3", "faculty">>]

\* the issue both sessions work on
SessionIssueId == 1

\* the Partial<Issue> values the sessions pass to updateIssue
SessionPatches ==
    {[status |-> "in_progress"], [status |-> "resolved"], [severity |-> "critical"]}

\* the store with the two privileged accounts, and the two hooks before
\* their first load
InitSessions ==
    /\ db_profiles = <<handle_new_user(SessionAccounts.s1[1], SessionAccounts.s1[2]),
                       handle_new_user(SessionAccounts.s2[1], SessionAccounts.s2[2])>>
    /\ auth_users = <<[id |-> SessionAccounts.s1[1], role |-> SessionAccounts.s1[2]],
                      [id |-> SessionAccounts.s2[1], role |-> SessionAccounts.s2[2]]>>
    /\ tabs = [t \in Tabs |-> ClosedTab]
    /\ net = {}
    /\ hooks = [s \in Sessions |-> <<>>]
    /\ submittedToken = NULL
    /\ step = 1
    /\ form = defaultValues
    /\ db_issues = SampleIssues(NULL)
    /\ db_issue_updates = SampleIssueUpdates(NULL)
    /\ db_anonymous_tokens = SampleAnonymousTokens(SampleIssues(NULL))
    /\ issues = <<>>
    /\ localStorage = {}
    /\ trackedIssue = <<>>
    /\ error = NULL
    /\ searchTerm = <<>>
    /\ statusFilter = "all"
    /\ severityFilter = "all"
    /\ categories = {}
    /\ departments = {}
    /\ loading = [useIssues |-> TRUE, ReportIssue |-> FALSE, TrackIssue |-> FALSE]
    /\ pc = [useIssues |-> "effect", ReportIssue |-> <<>>, TrackIssue |-> <<>>]
    /\ last = NoOp

\* fetchIssues() of the hook of a session: setIssues(transformedIssues)
SessionFetchIssues ==
    \E s \in Sessions :
        /\ hooks' = [hooks EXCEPT ![s] = SelectAllIssues(db_issues).data]
        /\ last' = Op("fetchIssues", SessionAccounts[s][1],
                      [outcome |-> "resolved", data |-> <<>>, token |-> NULL,
                       error |-> NoError], <<>>, "none", <<>>)
        /\ UNCHANGED <<db_issues, db_issue_updates, db_anonymous_tokens, db_profiles,
                       issues, localStorage, trackedIssue, error, dashVars,
                       asyncVars, profVars, net, submittedToken, wizardVars>>

\* a session calls updateIssue: the store runs the UPDATE of the request
\* and its answer is on its way to the session
SessionUpdateIssue ==
    \E s \in Sessions, updates \in SessionPatches :
        /\ \A m \in net : m.session # s
        /\ LET resp == single(UpdateIssueRows(db_issues, SessionIssueId, updates,
                                              SessionAccounts[s][1]))
           IN  /\ db_issues' = resp.table
               /\ net' = net \cup {[call |-> "updateIssue", session |-> s,
                                    args |-> <<SessionIssueId, updates>>,
                                    resp |-> resp]}
        /\ UNCHANGED <<db_issue_updates, db_anonymous_tokens, db_profiles,
                       issues, localStorage, trackedIssue, error, dashVars,
                       asyncVars, profVars, hooks, submittedToken, wizardVars, last>>

\* the answer reaches the session: updateIssue goes on after its await
SessionUpdateIssueSettled ==
    \E m \in net :
        /\ m.call = "updateIssue"
        /\ LET r == updateIssueSettled(m.resp, m.args[1], hooks[m.session])
           IN  /\ hooks' = [hooks EXCEPT ![m.session] = r.issues]
               /\ last' = Op("updateIssue", SessionAccounts[m.session][1], r, r.toasts,
                             "none", <<>>)
        /\ net' = net \ {m}
        /\ UNCHANGED <<db_issues, db_issue_updates, db_anonymous_tokens, db_profiles,
                       issues, localStorage, trackedIssue, error, dashVars,
                       asyncVars, profVars, submittedToken, wizardVars>>

NextSessions ==
    \/ SessionFetchIssues
    \/ SessionUpdateIssue
    \/ SessionUpdateIssueSettled

SpecSessions == InitSessions /\ [][NextSessions]_vars

-----------------------------------------------------------------------------
(* The status workflow through updateIssue *)

\* the issues whose status is changed: one that starts open, one resolved
WorkflowIds == {1, 4}

\* the status values passed: the four of the CHECK and one outside it
WorkflowStatuses == Statuses \cup {"escalated"}

\* the hook's updateIssue called with { status }; `last` keeps the call's
\* arguments and the row as it was
SetIssueStatus ==
    \E issueId \in WorkflowIds, status \in WorkflowStatuses, uid \in Callers :
        LET r == updateIssue(issueId, [status |-> status], uid, 0)
        IN  /\ db_issues' = r.table
            /\ issues' = r.issues
            /\ last' = Op("updateIssue", uid, r, r.toasts, "none",
                          <<[issueId |-> issueId, updates |-> [status |-> status],
                             before |-> db_issues[issueId]]>>)
            /\ UNCHANGED <<dashVars, asyncVars, db_issue_updates, db_anonymous_tokens,
                           db_profiles, extVars, localStorage, trackedIssue, error>>

NextWorkflow ==
    \/ FetchIssues
    \/ SetIssueStatus

SpecWorkflow == Init /\ [][NextWorkflow]_vars

-----------------------------------------------------------------------------
(* What updateIssue changes *)

\* the Partial<Issue> values passed: one column, two columns
FramePatches ==
    {[status |-> "resolved"], [severity |-> "low", title |-> "Air conditioning repaired"]}

\* the hook's updateIssue called with an id and a Partial<Issue>; `last`
\* keeps the call's arguments and the row as it was
UpdateIssueFields ==
    \E issueId \in UpdateIds, updates \in FramePatches, uid \in Callers, fail \in 0..1 :
        LET r == updateIssue(issueId, updates, uid, fail)
        IN  /\ db_issues' = r.table
            /\ issues' = r.issues
            /\ last' = Op("updateIssue", uid, r, r.toasts, "none",
                          <<[issueId |-> issueId, updates |-> updates,
                             before |-> SelectSeq(db_issues, LAMBDA x : x.id = issueId)]>>)
            /\ UNCHANGED <<dashVars, asyncVars, db_issue_updates, db_anonymous_tokens,
                           db_profiles, extVars, localStorage, trackedIssue, error>>

NextFrame ==
    \/ FetchIssues
    \/ CreateIssue
    \/ UpdateIssueFields

SpecFrame == Init /\ [][NextFrame]_vars

-----------------------------------------------------------------------------
(* A fetchIssues that overlaps other calls of the same hook *)

\* fetchIssues is called (by loadData or as refetch): the store answers the
\* select, or the request fails, and the answer is on its way to the hook
FetchIssuesSent ==
    \E fail \in 0..1 :
        /\ net = {}
        /\ net' = {[call |-> "fetchIssues", session |-> "s1", args |-> <<>>,
                    resp |-> IF fail = 1 THEN NetworkError
                             ELSE SelectAllIssues(db_issues)]}
        /\ UNCHANGED <<db_issues, db_issue_updates, db_anonymous_tokens, db_profiles,
                       issues, localStorage, trackedIssue, error, dashVars,
                       asyncVars, profVars, hooks, submittedToken, wizardVars, last>>

\* the answer reaches the hook: fetchIssues goes on after its await
FetchIssuesSettled ==
    \E m \in net :
        /\ m.call = "fetchIssues"
        /\ LET r == fetchIssuesSettled(m.resp, issues)
           IN  /\ issues' = r.issues
               /\ last' = Op("fetchIssues", NULL, r, r.toasts, "none", <<>>)
        /\ net' = net \ {m}
        /\ UNCHANGED <<db_issues, db_issue_updates, db_anonymous_tokens, db_profiles,
                       localStorage, trackedIssue, error, dashVars,
                       asyncVars, profVars, hooks, submittedToken, wizardVars>>

NextOverlap ==
    \/ FetchIssuesSent
    \/ FetchIssuesSettled
    \/ CreateIssue

SpecOverlap == Init /\ [][NextOverlap]_vars

-----------------------------------------------------------------------------
(* Lookups of the track page that overlap *)

\* how many lookups can be awaiting their answer (Enter in the token input
\* calls handleTrack also while loading disables the button)
MaxInFlight == 2

\* what is typed into the token input: the tokens of two sample issues, a
\* token no issue has, and a blank
LookupTokens == {"sec_1", "mnt_2", "never-issued", " "}

\* handleTrack up to its await: the validation of the token, setLoading(true),
\* setError(null) and the request of trackIssueByToken, which the store answers
HandleTrackSent ==
    \E token \in LookupTokens, fail \in 0..1 :
        IF trim(token) = ""
        THEN /\ error' = "Please enter a tracking token"
             /\ UNCHANGED <<db_issues, db_issue_updates, db_anonymous_tokens, db_profiles,
                            issues, localStorage, trackedIssue, dashVars,
                            asyncVars, profVars, raceVars, wizardVars, last>>
        ELSE /\ Cardinality(net) < MaxInFlight
             /\ submittedToken' = token
             /\ loading' = [loading EXCEPT !.TrackIssue = TRUE]
             /\ error' = NULL
             /\ net' = net \cup {[call |-> "trackIssueByToken", session |-> "s1",
                                  args |-> <<token>>,
                                  resp |-> trackIssueByToken(token, NULL, fail)]}
             /\ UNCHANGED <<db_issues, db_issue_updates, db_anonymous_tokens, db_profiles,
                            issues, localStorage, trackedIssue, dashVars,
                            categories, departments, pc, profVars, hooks,
                            wizardVars, last>>

\* handleTrack after its await, in whatever order the answers arrive
HandleTrackSettled ==
    \E m \in net :
        /\ m.call = "trackIssueByToken"
        /\ LET p == handleTrack(m.resp)
           IN  /\ trackedIssue' = p.trackedIssue
               /\ error' = IF p.page = "found" THEN error ELSE p.error
               /\ loading' = [loading EXCEPT !.TrackIssue = handleTrackLoading(m.resp)]
               /\ last' = Op("handleTrack", NULL, m.resp, m.resp.toasts \o p.toasts,
                             p.page, <<>>)
        /\ net' = net \ {m}
        /\ UNCHANGED <<db_issues, db_issue_updates, db_anonymous_tokens, db_profiles,
                       issues, localStorage, dashVars, categories, departments, pc,
                       profVars, hooks, submittedToken, wizardVars>>

NextLookups ==
    \/ HandleTrackSent
    \/ HandleTrackSettled

SpecLookups == Init /\ [][NextLookups]_vars

-----------------------------------------------------------------------------
(* The wizard of the report form *)

\* what can be typed into the title and the description of step 1
TypedTitles == {"", "Lamp", "Broken light in lobby"}
TypedDescriptions == {"", "It is off.", "The lobby light has flickered for two weeks."}

\* Next of step 1 and of step 2 without their disabled attribute
NextStep_AlwaysEnabled ==
    /\ step \in {1, 2}
    /\ step' = step + 1
    /\ UNCHANGED <<db_issues, db_issue_updates, db_anonymous_tokens, db_profiles,
                   issues, localStorage, trackedIssue, error, dashVars,
                   asyncVars, profVars, raceVars, form, last>>

\* the title or the description of step 1 is edited: field.onChange
EditStepOne ==
    \E title \in TypedTitles, description \in TypedDescriptions :
        /\ step = 1
        /\ form' = [form EXCEPT !.title = title, !.description = description]
        /\ UNCHANGED <<db_issues, db_issue_updates, db_anonymous_tokens, db_profiles,
                       issues, localStorage, trackedIssue, error, dashVars,
                       asyncVars, profVars, raceVars, step, last>>

\* a category or a severity is picked in step 2: onValueChange of the Select
EditStepTwo ==
    \E category_id \in CategoryIds \cup {form.category_id}, severity \in Severities :
        /\ step = 2
        /\ form' = [form EXCEPT !.category_id = category_id, !.severity = severity]
        /\ UNCHANGED <<db_issues, db_issue_updates, db_anonymous_tokens, db_profiles,
                       issues, localStorage, trackedIssue, error, dashVars,
                       asyncVars, profVars, raceVars, step, last>>

\* "Next: Categorize" of step 1 and "Next: Final Details" of step 2, each
\* disabled while a field of its step is empty
NextStep ==
    /\ \/ step = 1 /\ form.title # "" /\ form.description # ""
       \/ step = 2 /\ form.category_id # "" /\ form.severity # ""
    /\ step' = step + 1
    /\ UNCHANGED <<db_issues, db_issue_updates, db_anonymous_tokens, db_profiles,
                   issues, localStorage, trackedIssue, error, dashVars,
                   asyncVars, profVars, raceVars, form, last>>

\* "Previous" of step 2 and of step 3
PreviousStep ==
    /\ step \in {2, 3}
    /\ step' = step - 1
    /\ UNCHANGED <<db_issues, db_issue_updates, db_anonymous_tokens, db_profiles,
                   issues, localStorage, trackedIssue, error, dashVars,
                   asyncVars, profVars, raceVars, form, last>>

NextWizard ==
    \/ EditStepOne
    \/ EditStepTwo
    \/ NextStep
    \/ PreviousStep

SpecWizard == Init /\ [][NextWizard]_vars

-----------------------------------------------------------------------------
(* Properties *)

\* the privileged set of the update and insert policies
PrivilegedRoles == {"staff", "faculty"}

HasPrivilegedRole(uid) ==
    \E i \in 1..Len(db_profiles) :
        db_profiles[i].user_id = uid /\ db_profiles[i].role \in PrivilegedRoles

TrackOps == {"trackIssueByToken", "handleTrackForm", "handleTrack"}

\* a token that no sample issue holds, the generator never returns and no
\* update sets
NeverIssued(token) ==
    /\ token \notin GenTokens
    /\ token \notin {SampleIssues(NULL)[i].anonymous_token : i \in 1..NumSampleIssues}
    /\ token \notin {p.anonymous_token : p \in {q \in Patches : "anonymous_token" \in DOMAIN q}}

MatchesNoRow(token) ==
    \A i \in 1..Len(db_issues) : db_issues[i].anonymous_token # token

\* C1: a trackIssueByToken that directly follows a successful createIssue and
\* is given the token it returned finds (unless the request itself fails) an
\* issue whose title, description, severity and category_id are those passed
\* to createIssue.
C1_CreateThenTrackRoundTrip ==
    (last.op = "trackIssueByToken" /\ last.follows # <<>> /\ last.error # "network")
    => /\ last.outcome = "resolved"
       /\ Len(last.data) = 1
       /\ last.data[1].title = last.follows[1].title
       /\ last.data[1].description = last.follows[1].description
       /\ last.data[1].severity = last.follows[1].severity
       /\ last.data[1].category_id = last.follows[1].category_id

C1_Witness ==
    /\ last.op = "trackIssueByToken"
    /\ last.follows # <<>>
    /\ last.outcome = "resolved"
    /\ Len(last.data) = 1
    /\ last.data[1].id > NumSampleIssues
    /\ last.data[1].category_id = "cat_harassment"

\* C2: trackIssueByToken given a token that was never issued resolves with a
\* not-found result (no row) and does not reject, when the request reaches the
\* store.
C2_NeverIssuedTokenResolvesNotFound ==
    (last.op = "trackIssueByToken" /\ NeverIssued(last.token) /\ last.error # "network")
    => (last.outcome = "resolved" /\ last.data = <<>>)

\* C3: the track page ends in the not-found outcome when the token matches no
\* row, and in the generic-error outcome only when the request itself failed.
C3_NotFoundDistinctFromTransportFailure ==
    (last.op \in {"handleTrackForm", "handleTrack"} /\ last.page # "validation")
    => /\ (MatchesNoRow(last.token) /\ last.error # "network") => last.page = "not_found"
       /\ last.page = "error" => last.error = "network"

\* C4: an issue submitted through the report form with the anonymous box
\* checked is found by its token, and the issue returned has no reporter_id,
\* whether or not somebody was signed in when it was submitted.
C4_AnonymousIssueHasNoReporter ==
    (last.op \in TrackOps /\ last.follows # <<>> /\ last.error # "network")
    => (last.follows[1].anonymous
        => /\ last.outcome = "resolved"
           /\ Len(last.data) = 1
           /\ last.data[1].reporter_id = NULL)

C4_Witness ==
    /\ last.op \in TrackOps
    /\ last.follows # <<>>
    /\ last.follows[1].anonymous
    /\ last.follows[1].user # NULL
    /\ Len(last.data) = 1
    /\ last.data[1].reporter_id = NULL

\* C5: a stored issue row changes only in an updateIssue run by an account
\* whose profile role is privileged; every other step, among them the updates
\* of unauthenticated callers and of accounts with other roles, leaves all
\* stored issues as they were.
C5_OnlyPrivilegedUpdateChangesIssues ==
    [][\A i \in 1..Len(db_issues) :
          db_issues'[i] # db_issues[i]
          => (last'.op = "updateIssue" /\ HasPrivilegedRole(last'.uid))]_vars

C5_Witness ==
    /\ last.op = "updateIssue"
    /\ last.outcome = "resolved"
    /\ HasPrivilegedRole(last.uid)
    /\ db_issues[2] # SampleIssues(NULL)[2]

\* C6: an updateIssue by a caller without a privileged role rejects, emits the
\* error toast and no success toast, and leaves the stored issues and the
\* in-memory list as they were.
C6_UnauthorizedUpdateFailsLoudly ==
    [][(last'.op = "updateIssue" /\ ~HasPrivilegedRole(last'.uid))
       => /\ last'.outcome = "rejected"
          /\ last'.toasts = <<"Error updating issue">>
          /\ db_issues' = db_issues
          /\ issues' = issues]_vars

C6_Witness ==
    /\ last.op = "updateIssue"
    /\ last.uid # NULL
    /\ ~HasPrivilegedRole(last.uid)
    /\ last.error = "PGRST116"
    /\ \E i \in 1..Len(issues) : issues[i].id \in UpdateIds

\* C7: what trackIssueByToken returns never holds an issue update with
\* is_public false, whoever calls it, and a row enters issue_updates only by
\* an insert of an account with a privileged role.
C7_OnlyPublicUpdatesReadOnlyPrivilegedInsert ==
    [][/\ last'.op \in TrackOps
          => \A i \in 1..Len(last'.data) : \A u \in last'.data[i].updates : u.is_public
       /\ db_issue_updates' # db_issue_updates
          => (last'.op = "insertIssueUpdate" /\ HasPrivilegedRole(last'.uid))]_vars

C7_Witness ==
    /\ last.op \in TrackOps
    /\ Len(last.data) = 1
    /\ HasPrivilegedRole(last.uid)
    /\ \E u \in db_issue_updates : u.issue_id = last.data[1].id /\ ~u.is_public
    /\ \E u \in last.data[1].updates : u.is_public

TokensAreUnique ==
    \A i, j \in 1..Len(db_issues) :
        i # j => db_issues[i].anonymous_token # db_issues[j].anonymous_token

\* C8: no two stored issues ever hold the same anonymous_token, and an insert
\* adds a row only when its token differs from every token already stored (a
\* createIssue whose generated token is taken inserts nothing).
C8_AnonymousTokenUnique ==
    /\ []TokensAreUnique
    /\ [][Len(db_issues') > Len(db_issues)
          => \A i \in 1..Len(db_issues) :
                db_issues[i].anonymous_token
                    # db_issues'[Len(db_issues')].anonymous_token]_vars

C8_Witness ==
    /\ last.op = "createIssue"
    /\ last.outcome = "rejected"
    /\ last.error = "23505"
    /\ Len(db_issues) = NumSampleIssues

\* C9: no step changes the anonymous_token of a stored issue.
C9_AnonymousTokenImmutable ==
    [][\A i \in 1..Len(db_issues) :
          db_issues'[i].anonymous_token = db_issues[i].anonymous_token]_vars

\* C10: after a successful createIssue the returned token is the new issue's
\* anonymous_token and a row of anonymous_tokens holds it and references that
\* issue.
C10_TokenRowAfterCreate ==
    (last.op = "createIssue" /\ last.outcome = "resolved")
    => /\ last.data[1].anonymous_token = last.token
       /\ \E t \in db_anonymous_tokens :
             t.token = last.token /\ t.issue_id = last.data[1].id

\* C11: in every store state an issue's resolved_at is set exactly when its
\* status has reached resolved: a resolved issue has resolved_at set, and an
\* issue with resolved_at set is resolved or closed.
C11_ResolvedAtIffResolved ==
    \A i \in 1..Len(db_issues) :
        /\ db_issues[i].status = "resolved" => db_issues[i].resolved_at # NULL
        /\ db_issues[i].resolved_at # NULL => db_issues[i].status \in {"resolved", "closed"}

\* C12: a successful createIssue returns a non-empty token, and a
\* trackIssueByToken that directly follows it with that token returns the
\* issue with status open, whatever status the caller passed to createIssue.
C12_NewIssueIsOpen ==
    /\ (last.op = "createIssue" /\ last.outcome = "resolved")
       => (last.token # NULL /\ Len(last.token) >= 1)
    /\ (last.op = "trackIssueByToken" /\ last.follows # <<>> /\ last.error # "network")
       => /\ last.outcome = "resolved"
          /\ Len(last.data) = 1
          /\ last.data[1].status = "open"

C12_Witness ==
    /\ last.op = "trackIssueByToken"
    /\ last.follows # <<>>
    /\ last.follows[1].status = "closed"
    /\ Len(last.data) = 1
    /\ last.data[1].status = "open"

\* C13: a createIssue succeeds only when it was given title, description,
\* severity and category_id, and a createIssue that fails inserts no issue
\* row and leaves the in-memory list as it was.
C13_CreateRequiresFourFields ==
    [][last'.op = "createIssue"
       => /\ last'.outcome = "resolved"
             => /\ last'.follows[1].title # NULL
                /\ last'.follows[1].description # NULL
                /\ last'.follows[1].severity # NULL
                /\ last'.follows[1].category_id # NULL
          /\ last'.outcome = "rejected"
             => (db_issues' = db_issues /\ issues' = issues)]_vars

\* C14: a fetchIssues that fails emits its notification and leaves the
\* in-memory issue list as it was before the call; one that succeeds makes
\* the list hold exactly the issues of the store.
C14_FetchFailureKeepsList ==
    [][last'.op = "fetchIssues"
       => IF last'.error # NoError
          THEN /\ last'.toasts = <<"Error loading issues">>
               /\ issues' = issues
          ELSE /\ Len(issues') = Len(db_issues)
               /\ {issues'[i] : i \in 1..Len(issues')}
                     = {db_issues[i] : i \in 1..Len(db_issues)}]_vars

C14_Witness ==
    /\ last.op = "fetchIssues"
    /\ last.error = "network"
    /\ last.toasts = <<"Error loading issues">>
    /\ Len(issues) >= 1
    /\ Len(issues) # Len(db_issues)

\* C15: with the status filter set to a status X (and the search box and the
\* severity filter at their defaults) the Dashboard lists exactly the issues
\* whose status is X, in the order of the list, and their number plus the
\* numbers of the issues of every other status is the number of all issues.
C15_StatusFilterExact ==
    (statusFilter \in Statuses /\ searchTerm = <<>> /\ severityFilter = "all")
    => /\ \A i \in 1..Len(filteredIssues) : filteredIssues[i].status = statusFilter
       /\ \A i \in 1..Len(issues) :
             issues[i].status = statusFilter
             => \E j \in 1..Len(filteredIssues) : filteredIssues[j] = issues[i]
       /\ Len(filteredIssues)
             = Cardinality({i \in 1..Len(issues) : issues[i].status = statusFilter})
       /\ Len(filteredIssues)
             + Cardinality({i \in 1..Len(issues) :
                               issues[i].status \in Statuses \ {statusFilter}})
             = Len(issues)

C15_Witness ==
    /\ statusFilter = "resolved"
    /\ searchTerm = <<>>
    /\ severityFilter = "all"
    /\ Len(issues) = 2
    /\ issues[1].status = "closed"
    /\ issues[2].status = "resolved"
    /\ Len(filteredIssues) = 1

\* the issues of the list that are done: resolved or closed
DoneIssues == Cardinality({i \in 1..Len(issues) : issues[i].status \in {"resolved", "closed"}})

\* C17: the Dashboard's figures count a closed issue as done the way they
\* count a resolved one: the resolved count of both Dashboards is the number
\* of resolved and closed issues, the resolution rate is their share of all
\* issues, and the slices of the status distribution add up to all issues.
C17_ClosedCountsAsDone ==
    /\ resolvedIssues = DoneIssues
    /\ stats.resolved = DoneIssues
    /\ resolutionRate = IF DoneIssues > 0
                        THEN (200 * DoneIssues + Len(issues)) \div (2 * Len(issues))
                        ELSE 0
    /\ statusData[1].value + statusData[2].value + statusData[3].value = Len(issues)

\* C16: after a successful updateIssue that changes the status of an issue of
\* the in-memory list from open to resolved, the Dashboard shows that issue
\* when its status filter is resolved and does not show it when its status
\* filter is open.
C16_ResolvedIssueMovesBetweenViews ==
    [][\A i \in 1..Len(issues) :
          (/\ last'.op = "updateIssue"
           /\ last'.outcome = "resolved"
           /\ last'.data[1].id = issues[i].id
           /\ issues[i].status = "open"
           /\ last'.data[1].status = "resolved")
          => /\ statusFilter' = "resolved"
                => \E j \in 1..Len(filteredIssues') :
                      /\ filteredIssues'[j].id = issues[i].id
                      /\ filteredIssues'[j].status = "resolved"
             /\ statusFilter' = "open"
                => \A j \in 1..Len(filteredIssues') :
                      filteredIssues'[j].id # issues[i].id]_vars

C16_Witness ==
    /\ last.op = "updateIssue"
    /\ last.outcome = "resolved"
    /\ last.data[1].status = "resolved"
    /\ statusFilter = "resolved"
    /\ Len(filteredIssues) = 2
    /\ \E j \in 1..Len(filteredIssues) : filteredIssues[j].id = last.data[1].id

\* C18: a remote operation of the hook that fails is shown to the user by
\* exactly one notification, counting the hook's and the calling page's
\* together.
C18_FailureNotifiedOnce ==
    (last.op # "none" /\ last.error # NoError) => Len(last.toasts) = 1

\* C19: the loading flag of the hook's loadData, of the report page's
\* handleSubmit and of the track page's handleTrack, once true, is eventually
\* false again, whether the remote operations succeed or fail.
C19_LoadingEventuallyFalse ==
    /\ loading.useIssues ~> ~loading.useIssues
    /\ loading.ReportIssue ~> ~loading.ReportIssue
    /\ loading.TrackIssue ~> ~loading.TrackIssue

C19_Witness ==
    /\ last.op = "handleSubmit"
    /\ last.outcome = "rejected"
    /\ pc.ReportIssue = <<>>
    /\ ~loading.ReportIssue
    /\ ~loading.useIssues
    /\ last.toasts = <<"Error reporting issue", "Failed to submit report">>

\* C20: a submit of the report form reaches createIssue only with a title of
\* at least 5 characters, a description of at least 20, a non-empty
\* category_id and a severity of the enum; a submit with other values makes
\* no remote call: it leaves store, list and localStorage as they were and
\* emits no notification.
C20_FormValidatesBeforeWriting ==
    [][last'.op = "onSubmit"
       => LET data == last'.follows[1]
              valid == /\ Len(data.title) >= 5
                       /\ Len(data.description) >= 20
                       /\ Len(data.category_id) >= 1
                       /\ data.severity \in Severities
          IN  /\ last'.page # "validation" => valid
              /\ ~valid => /\ last'.page = "validation"
                           /\ last'.toasts = <<>>
                           /\ db_issues' = db_issues
                           /\ issues' = issues
                           /\ localStorage' = localStorage]_vars

C20_Witness ==
    /\ last.op = "onSubmit"
    /\ last.page = "validation"
    /\ last.follows[1].title = "Lamp"
    /\ Len(db_issues) = NumSampleIssues
\* C21: no two profiles share a user_id, whatever the interleaving of the
\* sign-up trigger and the create-if-missing path of the profile page in the
\* tabs, and every account that signed up has one profile, whose role is the
\* role of the sign-up metadata, or employee when the metadata has none
C21_OneProfilePerAccount ==
    /\ \A i, j \in DOMAIN db_profiles :
           db_profiles[i].user_id = db_profiles[j].user_id => i = j
    /\ \A k \in DOMAIN auth_users :
           k > Len(LegacyUsers) =>
               \E i \in DOMAIN db_profiles :
                   /\ db_profiles[i].user_id = auth_users[k].id
                   /\ db_profiles[i].role =
                          IF auth_users[k].role = NULL THEN "employee"
                          ELSE auth_users[k].role

\* two tabs found no profile for the same account and both inserted one: one
\* shows the created profile, the other the error; and an account has signed
\* up without a role
C21_Witness ==
    /\ \E t1, t2 \in Tabs :
           /\ tabs[t1].user = tabs[t2].user
           /\ tabs[t1].profile # <<>>
           /\ tabs[t2].toast = "23505"
    /\ \E k \in DOMAIN auth_users : k > Len(LegacyUsers) /\ auth_users[k].role = NULL
\* C22: a createIssue that resolves returns the created issue and a token
\* that is the anonymous_token of the stored row of that issue, and stores
\* that token in localStorage under issue_token_<id of the issue>; a
\* createIssue that rejects leaves localStorage as it was
C22_TokenReturnedAndStored ==
    [][last'.op = "createIssue" =>
          IF last'.outcome = "resolved"
          THEN /\ Len(last'.data) = 1
               /\ last'.data[1].id \in DOMAIN db_issues'
               /\ last'.data[1].id \notin DOMAIN db_issues
               /\ db_issues'[last'.data[1].id].anonymous_token = last'.token
               /\ last'.data[1].anonymous_token = last'.token
               /\ <<<<"issue_token_", last'.data[1].id>>, last'.token>> \in localStorage'
               /\ \A kv \in localStorage' \ localStorage :
                      kv = <<<<"issue_token_", last'.data[1].id>>, last'.token>>
          ELSE localStorage' = localStorage]_vars

\* a createIssue has resolved and stored its token, and the next one was
\* rejected by the store
C22_Witness ==
    /\ last.op = "createIssue" /\ last.outcome = "rejected"
    /\ last.error \notin {NoError, "network"}
    /\ \E kv \in localStorage : kv[2] \in GenTokens
\* C23: when two sessions of privileged accounts update the same issue, the
\* store runs each UPDATE whatever the other session has in flight (no
\* version is compared): the row gets the patched values of the request and
\* keeps its other columns, so it ends with the values of the update run
\* last, and every such updateIssue call resolves
C23_LastWriteWins ==
    [][/\ \A m \in net' \ net :
              /\ m.resp.error = NoError
              /\ \A c \in DOMAIN db_issues[m.args[1]] :
                     db_issues'[m.args[1]][c] =
                         IF c \in DOMAIN m.args[2] THEN m.args[2][c]
                         ELSE db_issues[m.args[1]][c]
       /\ (last'.op = "updateIssue" /\ last' # last) => last'.outcome = "resolved"
      ]_vars

\* the updateIssue of one session has resolved with a status that the
\* update of the other session, still in flight, has already replaced
C23_Witness ==
    /\ last.op = "updateIssue" /\ last.outcome = "resolved"
    /\ \E m \in net :
           /\ SessionAccounts[m.session][1] # last.uid
           /\ "status" \in DOMAIN m.args[2]
           /\ last.data[1].status # m.args[2].status
           /\ db_issues[SessionIssueId].status = m.args[2].status
\* C24: the status of every stored issue is always open, in_progress,
\* resolved or closed; an updateIssue to another value is rejected and leaves
\* the table as it was; and whatever the status of an issue is, closed
\* included, updateIssue by a privileged account to any of the four values
\* resolves and stores that value
C24_StatusWorkflow ==
    /\ [](\A i \in DOMAIN db_issues : db_issues[i].status \in Statuses)
    /\ [](\A uid \in Callers : HasPrivilegedRole(uid) =>
              \A i \in DOMAIN db_issues : \A st \in Statuses :
                  LET r == updateIssue(db_issues[i].id, [status |-> st], uid, 0)
                  IN  r.outcome = "resolved" /\ r.table[i].status = st)
    /\ [][(last'.op = "updateIssue" /\ last'.follows # <<>>
              /\ last'.follows[1].updates.status \notin Statuses)
          => (last'.outcome = "rejected" /\ db_issues' = db_issues)]_vars

\* a privileged account has moved a closed issue back to open
C24_Witness ==
    /\ last.op = "updateIssue" /\ last.outcome = "resolved"
    /\ last.follows # <<>>
    /\ last.follows[1].before.status = "closed"
    /\ last.data[1].status = "open"
    /\ db_issues[last.follows[1].issueId].status = "open"
\* C25: an updateIssue(id, patch) that resolves changes in the store only the
\* row with that id, and of it only the patched columns; in the list it
\* replaces the entry with that id by the returned row and leaves the length,
\* the order and every other entry as they were, so that an id the list does
\* not hold adds no entry
C25_UpdateFrame ==
    [][(last'.op = "updateIssue" /\ last'.follows # <<>> /\ last'.outcome = "resolved") =>
          LET id == last'.follows[1].issueId
              patch == last'.follows[1].updates
          IN  /\ DOMAIN db_issues' = DOMAIN db_issues
              /\ \A i \in DOMAIN db_issues :
                     IF db_issues[i].id # id
                     THEN db_issues'[i] = db_issues[i]
                     ELSE \A c \in DOMAIN db_issues[i] :
                              db_issues'[i][c] = IF c \in DOMAIN patch THEN patch[c]
                                                 ELSE db_issues[i][c]
              /\ db_issue_updates' = db_issue_updates
              /\ db_anonymous_tokens' = db_anonymous_tokens
              /\ db_profiles' = db_profiles
              /\ DOMAIN issues' = DOMAIN issues
              /\ \A k \in DOMAIN issues :
                     issues'[k] = IF issues[k].id = id THEN last'.data[1] ELSE issues[k]
      ]_vars

\* an updateIssue of two columns has resolved for an issue that the list,
\* which holds another issue, does not hold
C25_Witness ==
    /\ last.op = "updateIssue" /\ last.outcome = "resolved" /\ last.follows # <<>>
    /\ Cardinality(DOMAIN last.follows[1].updates) = 2
    /\ Len(issues) > 0
    /\ \A k \in DOMAIN issues : issues[k].id # last.follows[1].issueId
\* C26: after the report form is submitted by a signed-in user with the
\* anonymous box unchecked, the stored issue has that user's id as its
\* reporter_id
C26_ReporterIdStored ==
    (/\ last.op = "handleSubmit" /\ last.outcome = "resolved"
     /\ last.follows # <<>>
     /\ last.follows[1].user # NULL
     /\ ~last.follows[1].anonymous)
    => /\ db_issues[last.data[1].id].reporter_id = last.follows[1].user
       /\ last.data[1].reporter_id = last.follows[1].user
\* C27: every issue that a createIssue of this hook has returned (its token
\* is in localStorage under issue_token_<id>) is in the hook's list from then
\* on, also when a fetchIssues that was sent before the insert settles after it
C27_CreatedIssueStaysInList ==
    \A kv \in localStorage :
        \E k \in DOMAIN issues : issues[k].id = kv[1][2]
\* C28: the issue the track page shows, if it shows one, is the issue whose
\* anonymous_token is the token submitted last
C28_ShownIssueIsOfLastToken ==
    trackedIssue # <<>> => trackedIssue[1].anonymous_token = submittedToken
\* C29: once accounts with each role of the sign-up form have signed up, one
\* of them can move an open issue out of status open through updateIssue
C29_FormRoleCanUpdate ==
    (\A role \in SignUpFormRoles :
        \E k \in DOMAIN auth_users : k > Len(LegacyUsers) /\ auth_users[k].role = role)
    => \E k \in DOMAIN auth_users :
           /\ k > Len(LegacyUsers)
           /\ auth_users[k].role \in SignUpFormRoles
           /\ \E i \in DOMAIN db_issues :
                  /\ db_issues[i].status = "open"
                  /\ LET r == updateIssue(db_issues[i].id, [status |-> "in_progress"],
                                          auth_users[k].id, 0)
                     IN  r.outcome = "resolved" /\ r.table[i].status = "in_progress"
\* C30: the step of the report form is always 1, 2 or 3 and a button press
\* changes it by exactly one; while it is 2 or 3 the title and the
\* description are not empty, and while it is 3 the category_id is not empty
C30_WizardSteps ==
    /\ [](/\ step \in {1, 2, 3}
          /\ step \in {2, 3} => (form.title # "" /\ form.description # "")
          /\ step = 3 => form.category_id # "")
    /\ [][step' # step => (step' = step + 1 \/ step' = step - 1)]_vars

\* the form is at step 3 after the user went back to step 1 and changed the
\* title
C30_Witness ==
    /\ step = 3
    /\ form.title = "Lamp"
    /\ form.category_id \in CategoryIds
    /\ form.severity = "low"

====
